---- MODULE Spec2Model ----
(***************************************************************************)
(* The dotprompt tree-sitter parser (packages/treesitter/src/parser.c):    *)
(* the lexer automaton ts_lex, the lex modes, the parse tables and the     *)
(* parse actions, driven by the LR loop the tables are generated for.      *)
(*                                                                         *)
(* A character is a one-character string; NUL stands for the code 0, which *)
(* is also what the lexer reads as lookahead at end of input.  Positions   *)
(* are byte offsets counted from 0, as in the parser.                      *)
(***************************************************************************)
EXTENDS Integers, Sequences, FiniteSets, TLC

VARIABLES
  input,          \* the source text, a sequence of characters
  pc,             \* "lex", "parse", "accepted", "lex_error", "syntax_error"
  position,       \* lexer cursor: number of characters consumed
  lex_state,      \* ts_lex: the local `state`
  result,         \* ts_lex: the local `result`
  result_symbol,  \* lexer->result_symbol
  token_start,    \* start of the token being lexed (after skipped characters)
  token_end,      \* lexer->mark_end position
  token,          \* the lookahead token handed to the parser
  tokens,         \* every token the lexer has delivered, in source order
  stack,          \* the parse stack: <<[state, node], ...>>, bottom first
  pass,           \* 1 for the parse of the given text, 2 for a re-parse
  first_tree,     \* the tree of pass 1, kept for a re-parse
  other           \* a second parse, suspended: [parse, id, alone]

vars == <<input, pc, position, lex_state, result, result_symbol, token_start,
          token_end, token, tokens, stack, pass, first_tree, other>>

----------------------------------------------------------------------------
\* Characters

NUL == "NUL"

\* The printable ASCII characters in code order, from ' ' (32) to '~' (126);
\* GRAVE stands for the backquote (96).
AsciiFrom32 ==
  << " ", "!", "\"", "#", "$", "%", "&", "'", "(", ")", "*", "+", ",", "-", ".", "/",
     "0", "1", "2", "3", "4", "5", "6", "7", "8", "9", ":", ";", "<", "=", ">", "?",
     "@", "A", "B", "C", "D", "E", "F", "G", "H", "I", "J", "K", "L", "M", "N", "O",
     "P", "Q", "R", "S", "T", "U", "V", "W", "X", "Y", "Z", "[", "\\", "]", "^", "_",
     "GRAVE", "a", "b", "c", "d", "e", "f", "g", "h", "i", "j", "k", "l", "m", "n", "o",
     "p", "q", "r", "s", "t", "u", "v", "w", "x", "y", "z", "{", "|", "}", "~" >>

\* The character code of a character (the int32_t the lexer compares).
Ord ==
  [c \in {NUL, "\t", "\n", "\f", "\r"} \cup {AsciiFrom32[i] : i \in 1..Len(AsciiFrom32)} |->
     CASE c = NUL  -> 0
       [] c = "\t" -> 9
       [] c = "\n" -> 10
       [] c = "\f" -> 12
       [] c = "\r" -> 13
       [] OTHER    -> 31 + (CHOOSE i \in 1..Len(AsciiFrom32) : AsciiFrom32[i] = c)]

\* (lo <= lookahead && lookahead <= hi)
Between(lo, c, hi) == Ord[lo] <= Ord[c] /\ Ord[c] <= Ord[hi]

----------------------------------------------------------------------------
\* Symbols
\* enum ts_symbol_identifiers; ts_builtin_sym_end is 0 in the tree-sitter runtime.
ts_builtin_sym_end == 0
sym_header_comment == 1
aux_sym_frontmatter_token1 == 2
sym_frontmatter_delimiter == 3
aux_sym__yaml_content_token1 == 4
aux_sym_yaml_line_token1 == 5
anon_sym_COLON == 6
aux_sym_yaml_line_token2 == 7
anon_sym_LBRACE_LBRACE_POUND == 8
anon_sym_RBRACE_RBRACE == 9
anon_sym_LBRACE_LBRACE_SLASH == 10
anon_sym_LBRACE_LBRACE == 11
anon_sym_GT == 12
anon_sym_else == 13
anon_sym_LBRACE_LBRACE_BANG == 14
aux_sym_handlebars_comment_token1 == 15
anon_sym_LBRACE_LBRACE_BANG_DASH_DASH == 16
aux_sym_handlebars_comment_token2 == 17
anon_sym_DASH_DASH_RBRACE_RBRACE == 18
anon_sym_EQ == 19
aux_sym_variable_reference_token1 == 20
sym_path == 21
anon_sym_DQUOTE == 22
aux_sym_string_literal_token1 == 23
anon_sym_SQUOTE == 24
aux_sym_string_literal_token2 == 25
sym_number == 26
anon_sym_true == 27
anon_sym_false == 28
anon_sym_LT_LT_LTdotprompt_COLON == 29
aux_sym_dotprompt_marker_token1 == 30
anon_sym_GT_GT_GT == 31
sym_text == 32
sym_document == 33
sym_license_header == 34
sym_frontmatter == 35
sym__yaml_content == 36
sym_yaml_line == 37
sym_template_body == 38
sym__content == 39
sym_handlebars_block == 40
sym_block_expression == 41
sym_close_block == 42
sym_handlebars_expression == 43
sym_expression_content == 44
sym_handlebars_comment == 45
sym_argument == 46
sym_hash_param == 47
sym_variable_reference == 48
sym_string_literal == 49
sym_boolean == 50
sym_dotprompt_marker == 51
aux_sym_license_header_repeat1 == 52
aux_sym_frontmatter_repeat1 == 53
aux_sym_template_body_repeat1 == 54
aux_sym_block_expression_repeat1 == 55
alias_sym_block_name == 56
alias_sym_helper_name == 57
alias_sym_key == 58
alias_sym_partial_reference == 59
alias_sym_yaml_content == 60
\* enum ts_field_identifiers
field_key == 1
field_name == 2
field_value == 3
STATE_COUNT == 87
LARGE_STATE_COUNT == 2
SYMBOL_COUNT == 56
TOKEN_COUNT == 33

----------------------------------------------------------------------------
\* The lexer automaton.  One evaluation of ts_lex(state, lookahead, eof) is one
\* pass through the switch: the token the state accepts (ACCEPT_TOKEN), if
\* any, and the transition taken (ADVANCE, SKIP or END_STATE).

\* No ACCEPT_TOKEN in the state.
NoToken == 0 - 1

\* ADVANCE(n): consume the lookahead character and go to state n.
ADVANCE(n) == [op |-> "advance", state |-> n]
\* SKIP(n): consume the lookahead character as skipped padding and go to state n.
SKIP(n) == [op |-> "skip", state |-> n]
\* END_STATE(): return `result`.
END_STATE == [op |-> "end", state |-> 0 - 1]

\* ts_lex, case 0 (parser.c lines 630-654)
ts_lex_case_0(state, lookahead, eof) ==
  CASE state = 0 ->
       [accept |-> NoToken, next |->
             IF eof THEN ADVANCE(40)
             ELSE IF lookahead = "\"" THEN ADVANCE(78)
             ELSE IF lookahead = "#" THEN ADVANCE(41)
             ELSE IF lookahead = "'" THEN ADVANCE(81)
             ELSE IF lookahead = "-" THEN ADVANCE(6)
             ELSE IF lookahead = ":" THEN ADVANCE(47)
             ELSE IF lookahead = "<" THEN ADVANCE(13)
             ELSE IF lookahead = "=" THEN ADVANCE(65)
             ELSE IF lookahead = ">" THEN ADVANCE(56)
             ELSE IF lookahead = "@" THEN ADVANCE(33)
             ELSE IF lookahead = "e" THEN ADVANCE(71)
             ELSE IF lookahead = "f" THEN ADVANCE(67)
             ELSE IF lookahead = "t" THEN ADVANCE(73)
             ELSE IF lookahead = "{" THEN ADVANCE(26)
             ELSE IF lookahead = "}" THEN ADVANCE(27)
             ELSE IF Between("\t", lookahead, "\r") \/ lookahead = " " THEN SKIP(0)
             ELSE IF Between("0", lookahead, "9") THEN ADVANCE(84)
             ELSE IF Between("A", lookahead, "Z") \/ lookahead = "_" \/ Between("a", lookahead, "z") THEN ADVANCE(77)
             ELSE END_STATE]

\* ts_lex, case 1 (parser.c lines 655-661)
ts_lex_case_1(state, lookahead, eof) ==
  CASE state = 1 ->
       [accept |-> NoToken, next |->
             IF lookahead = "\n" THEN ADVANCE(42)
             ELSE IF lookahead = "\r" THEN ADVANCE(48)
             ELSE IF Between("\t", lookahead, "\f") \/ lookahead = " " THEN ADVANCE(48)
             ELSE IF lookahead # NUL THEN ADVANCE(49)
             ELSE END_STATE]

\* ts_lex, case 2 to case 3 (parser.c lines 662-686)
ts_lex_cases_2_3(state, lookahead, eof) ==
  CASE state = 2 ->
       [accept |-> NoToken, next |->
             IF lookahead = "\n" THEN ADVANCE(43)
             ELSE IF lookahead = "\r" THEN ADVANCE(2)
             ELSE IF Between("\t", lookahead, "\f") \/ lookahead = " " THEN SKIP(2)
             ELSE END_STATE]
    [] state = 3 ->
       [accept |-> NoToken, next |->
             IF lookahead = "\"" THEN ADVANCE(78)
             ELSE IF lookahead = "'" THEN ADVANCE(81)
             ELSE IF lookahead = "-" THEN ADVANCE(31)
             ELSE IF lookahead = "=" THEN ADVANCE(65)
             ELSE IF lookahead = ">" THEN ADVANCE(14)
             ELSE IF lookahead = "@" THEN ADVANCE(33)
             ELSE IF lookahead = "f" THEN ADVANCE(67)
             ELSE IF lookahead = "t" THEN ADVANCE(73)
             ELSE IF lookahead = "}" THEN ADVANCE(27)
             ELSE IF Between("\t", lookahead, "\r") \/ lookahead = " " THEN SKIP(3)
             ELSE IF Between("0", lookahead, "9") THEN ADVANCE(84)
             ELSE IF Between("A", lookahead, "Z") \/ lookahead = "_" \/ Between("a", lookahead, "z") THEN ADVANCE(77)
             ELSE END_STATE]

\* ts_lex, case 4 (parser.c lines 687-695)
ts_lex_case_4(state, lookahead, eof) ==
  CASE state = 4 ->
       [accept |-> NoToken, next |->
             IF lookahead = "#" THEN ADVANCE(41)
             ELSE IF lookahead = "-" THEN ADVANCE(10)
             ELSE IF Between("\t", lookahead, "\r") \/ lookahead = " " THEN ADVANCE(45)
             ELSE IF Between("A", lookahead, "Z") \/ lookahead = "_" \/ Between("a", lookahead, "z") THEN ADVANCE(46)
             ELSE END_STATE]

\* ts_lex, case 5 (parser.c lines 696-703)
ts_lex_case_5(state, lookahead, eof) ==
  CASE state = 5 ->
       [accept |-> NoToken, next |->
             IF lookahead = "#" THEN ADVANCE(92)
             ELSE IF lookahead = "<" THEN ADVANCE(99)
             ELSE IF lookahead = "{" THEN ADVANCE(100)
             ELSE IF Between("\t", lookahead, "\r") \/ lookahead = " " THEN ADVANCE(96)
             ELSE IF lookahead # NUL THEN ADVANCE(102)
             ELSE END_STATE]

\* ts_lex, case 6 to case 15 (parser.c lines 704-735)
ts_lex_cases_6_15(state, lookahead, eof) ==
  CASE state = 6 ->
       [accept |-> NoToken, next |->
             IF lookahead = "-" THEN ADVANCE(8)
             ELSE IF Between("0", lookahead, "9") THEN ADVANCE(84)
             ELSE END_STATE]
    [] state = 7 ->
       [accept |-> NoToken, next |->
             IF lookahead = "-" THEN ADVANCE(44)
             ELSE END_STATE]
    [] state = 8 ->
       [accept |-> NoToken, next |->
             IF lookahead = "-" THEN ADVANCE(44)
             ELSE IF lookahead = "}" THEN ADVANCE(28)
             ELSE END_STATE]
    [] state = 9 ->
       [accept |-> NoToken, next |->
             IF lookahead = "-" THEN ADVANCE(61)
             ELSE END_STATE]
    [] state = 10 ->
       [accept |-> NoToken, next |->
             IF lookahead = "-" THEN ADVANCE(7)
             ELSE END_STATE]
    [] state = 11 ->
       [accept |-> NoToken, next |->
             IF lookahead = ":" THEN ADVANCE(88)
             ELSE END_STATE]
    [] state = 12 ->
       [accept |-> NoToken, next |->
             IF lookahead = "<" THEN ADVANCE(17)
             ELSE END_STATE]
    [] state = 13 ->
       [accept |-> NoToken, next |->
             IF lookahead = "<" THEN ADVANCE(12)
             ELSE END_STATE]
    [] state = 14 ->
       [accept |-> NoToken, next |->
             IF lookahead = ">" THEN ADVANCE(15)
             ELSE END_STATE]
    [] state = 15 ->
       [accept |-> NoToken, next |->
             IF lookahead = ">" THEN ADVANCE(91)
             ELSE END_STATE]

\* ts_lex, case 16, with 'e' taken as any other letter of a path.
ts_lex_case_16_path(state, lookahead, eof) ==
  CASE state = 16 ->
       [accept |-> NoToken, next |->
             IF lookahead = ">" THEN ADVANCE(55)
             ELSE IF lookahead = "@" THEN ADVANCE(33)
             ELSE IF Between("\t", lookahead, "\r") \/ lookahead = " " THEN SKIP(16)
             ELSE IF Between("A", lookahead, "Z") \/ lookahead = "_" \/ Between("a", lookahead, "z") THEN ADVANCE(77)
             ELSE END_STATE]

\* ts_lex, case 16 (parser.c lines 736-745)
ts_lex_case_16(state, lookahead, eof) ==
  CASE state = 16 ->
       [accept |-> NoToken, next |->
             IF lookahead = ">" THEN ADVANCE(55)
             ELSE IF lookahead = "@" THEN ADVANCE(33)
             ELSE IF lookahead = "e" THEN ADVANCE(71)
             ELSE IF Between("\t", lookahead, "\r") \/ lookahead = " " THEN SKIP(16)
             ELSE IF Between("A", lookahead, "Z") \/ lookahead = "_" \/ Between("a", lookahead, "z") THEN ADVANCE(77)
             ELSE END_STATE]

\* ts_lex, case 17 to case 28 (parser.c lines 746-781)
ts_lex_cases_17_28(state, lookahead, eof) ==
  CASE state = 17 ->
       [accept |-> NoToken, next |->
             IF lookahead = "d" THEN ADVANCE(19)
             ELSE END_STATE]
    [] state = 18 ->
       [accept |-> NoToken, next |->
             IF lookahead = "m" THEN ADVANCE(22)
             ELSE END_STATE]
    [] state = 19 ->
       [accept |-> NoToken, next |->
             IF lookahead = "o" THEN ADVANCE(24)
             ELSE END_STATE]
    [] state = 20 ->
       [accept |-> NoToken, next |->
             IF lookahead = "o" THEN ADVANCE(18)
             ELSE END_STATE]
    [] state = 21 ->
       [accept |-> NoToken, next |->
             IF lookahead = "p" THEN ADVANCE(23)
             ELSE END_STATE]
    [] state = 22 ->
       [accept |-> NoToken, next |->
             IF lookahead = "p" THEN ADVANCE(25)
             ELSE END_STATE]
    [] state = 23 ->
       [accept |-> NoToken, next |->
             IF lookahead = "r" THEN ADVANCE(20)
             ELSE END_STATE]
    [] state = 24 ->
       [accept |-> NoToken, next |->
             IF lookahead = "t" THEN ADVANCE(21)
             ELSE END_STATE]
    [] state = 25 ->
       [accept |-> NoToken, next |->
             IF lookahead = "t" THEN ADVANCE(11)
             ELSE END_STATE]
    [] state = 26 ->
       [accept |-> NoToken, next |->
             IF lookahead = "{" THEN ADVANCE(54)
             ELSE END_STATE]
    [] state = 27 ->
       [accept |-> NoToken, next |->
             IF lookahead = "}" THEN ADVANCE(51)
             ELSE END_STATE]
    [] state = 28 ->
       [accept |-> NoToken, next |->
             IF lookahead = "}" THEN ADVANCE(64)
             ELSE END_STATE]

\* ts_lex, case 29 (parser.c lines 782-788)
ts_lex_case_29(state, lookahead, eof) ==
  CASE state = 29 ->
       [accept |-> NoToken, next |->
             IF Between("\t", lookahead, "\r") \/ lookahead = " " THEN SKIP(29)
             ELSE IF Between("A", lookahead, "Z") \/ lookahead = "_" \/ Between("a", lookahead, "z") THEN ADVANCE(77)
             ELSE END_STATE]

\* ts_lex case 30 with the blanks before the marker content skipped instead of
\* advanced over.
ts_lex_case_30_skip(state, lookahead, eof) ==
  CASE state = 30 ->
       [accept |-> NoToken, next |->
             IF Between("\t", lookahead, "\r") \/ lookahead = " " THEN SKIP(30)
             ELSE IF lookahead # NUL /\ lookahead # ">" THEN ADVANCE(90)
             ELSE END_STATE]

\* ts_lex, case 30 (parser.c lines 789-794)
ts_lex_case_30(state, lookahead, eof) ==
  CASE state = 30 ->
       [accept |-> NoToken, next |->
             IF Between("\t", lookahead, "\r") \/ lookahead = " " THEN ADVANCE(89)
             ELSE IF lookahead # NUL /\ lookahead # ">" THEN ADVANCE(90)
             ELSE END_STATE]

\* ts_lex, case 31 to case 36 (parser.c lines 795-817)
ts_lex_cases_31_36(state, lookahead, eof) ==
  CASE state = 31 ->
       [accept |-> NoToken, next |->
             IF Between("0", lookahead, "9") THEN ADVANCE(84)
             ELSE END_STATE]
    [] state = 32 ->
       [accept |-> NoToken, next |->
             IF Between("0", lookahead, "9") THEN ADVANCE(85)
             ELSE END_STATE]
    [] state = 33 ->
       [accept |-> NoToken, next |->
             IF Between("A", lookahead, "Z") \/ lookahead = "_" \/ Between("a", lookahead, "z") THEN ADVANCE(66)
             ELSE END_STATE]
    [] state = 34 ->
       [accept |-> NoToken, next |->
             IF lookahead # NUL /\ lookahead # "\n" THEN ADVANCE(83)
             ELSE END_STATE]
    [] state = 35 ->
       [accept |-> NoToken, next |->
             IF lookahead # NUL /\ lookahead # "\n" THEN ADVANCE(80)
             ELSE END_STATE]
    [] state = 36 ->
       [accept |-> NoToken, next |->
             IF lookahead # NUL /\ lookahead # "}" THEN ADVANCE(60)
             ELSE END_STATE]

\* ts_lex cases 37 to 40 with case 37 written as `if (eof) ADVANCE(37)`: the
\* lexer re-enters case 37 at the end of the input.
ts_lex_cases_37_40_eof_loop(state, lookahead, eof) ==
  CASE state = 37 ->
       [accept |-> NoToken, next |->
             IF eof THEN ADVANCE(37)
             ELSE IF lookahead = "#" THEN ADVANCE(41)
             ELSE IF lookahead = "-" THEN ADVANCE(98)
             ELSE IF lookahead = "<" THEN ADVANCE(99)
             ELSE IF lookahead = "{" THEN ADVANCE(101)
             ELSE IF Between("\t", lookahead, "\r") \/ lookahead = " " THEN ADVANCE(93)
             ELSE IF lookahead # NUL THEN ADVANCE(102)
             ELSE END_STATE]
    [] state = 38 ->
       [accept |-> NoToken, next |->
             IF eof THEN ADVANCE(40)
             ELSE IF lookahead = "#" THEN ADVANCE(92)
             ELSE IF lookahead = "-" THEN ADVANCE(98)
             ELSE IF lookahead = "<" THEN ADVANCE(99)
             ELSE IF lookahead = "{" THEN ADVANCE(101)
             ELSE IF Between("\t", lookahead, "\r") \/ lookahead = " " THEN ADVANCE(94)
             ELSE IF lookahead # NUL THEN ADVANCE(102)
             ELSE END_STATE]
    [] state = 39 ->
       [accept |-> NoToken, next |->
             IF eof THEN ADVANCE(40)
             ELSE IF lookahead = "#" THEN ADVANCE(92)
             ELSE IF lookahead = "<" THEN ADVANCE(99)
             ELSE IF lookahead = "{" THEN ADVANCE(101)
             ELSE IF Between("\t", lookahead, "\r") \/ lookahead = " " THEN ADVANCE(95)
             ELSE IF lookahead # NUL THEN ADVANCE(102)
             ELSE END_STATE]
    [] state = 40 ->
       [accept |-> ts_builtin_sym_end, next |->
             END_STATE]

\* ts_lex, case 37 to case 40, with case 39 taking '#' to the header comment (case 41)
\* as case 37 does.
ts_lex_cases_37_40_hash(state, lookahead, eof) ==
  CASE state = 37 ->
       [accept |-> NoToken, next |->
             IF eof THEN ADVANCE(40)
             ELSE IF lookahead = "#" THEN ADVANCE(41)
             ELSE IF lookahead = "-" THEN ADVANCE(98)
             ELSE IF lookahead = "<" THEN ADVANCE(99)
             ELSE IF lookahead = "{" THEN ADVANCE(101)
             ELSE IF Between("\t", lookahead, "\r") \/ lookahead = " " THEN ADVANCE(93)
             ELSE IF lookahead # NUL THEN ADVANCE(102)
             ELSE END_STATE]
    [] state = 38 ->
       [accept |-> NoToken, next |->
             IF eof THEN ADVANCE(40)
             ELSE IF lookahead = "#" THEN ADVANCE(92)
             ELSE IF lookahead = "-" THEN ADVANCE(98)
             ELSE IF lookahead = "<" THEN ADVANCE(99)
             ELSE IF lookahead = "{" THEN ADVANCE(101)
             ELSE IF Between("\t", lookahead, "\r") \/ lookahead = " " THEN ADVANCE(94)
             ELSE IF lookahead # NUL THEN ADVANCE(102)
             ELSE END_STATE]
    [] state = 39 ->
       [accept |-> NoToken, next |->
             IF eof THEN ADVANCE(40)
             ELSE IF lookahead = "#" THEN ADVANCE(41)
             ELSE IF lookahead = "<" THEN ADVANCE(99)
             ELSE IF lookahead = "{" THEN ADVANCE(101)
             ELSE IF Between("\t", lookahead, "\r") \/ lookahead = " " THEN ADVANCE(95)
             ELSE IF lookahead # NUL THEN ADVANCE(102)
             ELSE END_STATE]
    [] state = 40 ->
       [accept |-> ts_builtin_sym_end, next |->
             END_STATE]

\* ts_lex, case 37 to case 40 (parser.c lines 818-849)
ts_lex_cases_37_40(state, lookahead, eof) ==
  CASE state = 37 ->
       [accept |-> NoToken, next |->
             IF eof THEN ADVANCE(40)
             ELSE IF lookahead = "#" THEN ADVANCE(41)
             ELSE IF lookahead = "-" THEN ADVANCE(98)
             ELSE IF lookahead = "<" THEN ADVANCE(99)
             ELSE IF lookahead = "{" THEN ADVANCE(101)
             ELSE IF Between("\t", lookahead, "\r") \/ lookahead = " " THEN ADVANCE(93)
             ELSE IF lookahead # NUL THEN ADVANCE(102)
             ELSE END_STATE]
    [] state = 38 ->
       [accept |-> NoToken, next |->
             IF eof THEN ADVANCE(40)
             ELSE IF lookahead = "#" THEN ADVANCE(92)
             ELSE IF lookahead = "-" THEN ADVANCE(98)
             ELSE IF lookahead = "<" THEN ADVANCE(99)
             ELSE IF lookahead = "{" THEN ADVANCE(101)
             ELSE IF Between("\t", lookahead, "\r") \/ lookahead = " " THEN ADVANCE(94)
             ELSE IF lookahead # NUL THEN ADVANCE(102)
             ELSE END_STATE]
    [] state = 39 ->
       [accept |-> NoToken, next |->
             IF eof THEN ADVANCE(40)
             ELSE IF lookahead = "#" THEN ADVANCE(92)
             ELSE IF lookahead = "<" THEN ADVANCE(99)
             ELSE IF lookahead = "{" THEN ADVANCE(101)
             ELSE IF Between("\t", lookahead, "\r") \/ lookahead = " " THEN ADVANCE(95)
             ELSE IF lookahead # NUL THEN ADVANCE(102)
             ELSE END_STATE]
    [] state = 40 ->
       [accept |-> ts_builtin_sym_end, next |->
             END_STATE]

\* ts_lex, case 41 to case 47 (parser.c lines 850-886)
ts_lex_cases_41_47(state, lookahead, eof) ==
  CASE state = 41 ->
       [accept |-> sym_header_comment, next |->
             IF lookahead # NUL /\ lookahead # "\n" THEN ADVANCE(41)
             ELSE END_STATE]
    [] state = 42 ->
       [accept |-> aux_sym_frontmatter_token1, next |->
             IF lookahead = "\n" THEN ADVANCE(42)
             ELSE IF lookahead = "\r" THEN ADVANCE(48)
             ELSE IF Between("\t", lookahead, "\f") \/ lookahead = " " THEN ADVANCE(48)
             ELSE END_STATE]
    [] state = 43 ->
       [accept |-> aux_sym_frontmatter_token1, next |->
             IF lookahead = "\n" THEN ADVANCE(43)
             ELSE IF lookahead = "\r" THEN ADVANCE(2)
             ELSE END_STATE]
    [] state = 44 ->
       [accept |-> sym_frontmatter_delimiter, next |->
             END_STATE]
    [] state = 45 ->
       [accept |-> aux_sym__yaml_content_token1, next |->
             IF lookahead = "-" THEN ADVANCE(10)
             ELSE IF Between("\t", lookahead, "\r") \/ lookahead = " " THEN ADVANCE(45)
             ELSE END_STATE]
    [] state = 46 ->
       [accept |-> aux_sym_yaml_line_token1, next |->
             IF lookahead = "-" \/ Between("0", lookahead, "9") \/ Between("A", lookahead, "Z") \/ lookahead = "_" \/ Between("a", lookahead, "z") THEN ADVANCE(46)
             ELSE END_STATE]
    [] state = 47 ->
       [accept |-> anon_sym_COLON, next |->
             END_STATE]

\* ts_lex, case 48 to case 49 (parser.c lines 887-899)
ts_lex_cases_48_49(state, lookahead, eof) ==
  CASE state = 48 ->
       [accept |-> aux_sym_yaml_line_token2, next |->
             IF lookahead = "\n" THEN ADVANCE(42)
             ELSE IF lookahead = "\r" THEN ADVANCE(48)
             ELSE IF Between("\t", lookahead, "\f") \/ lookahead = " " THEN ADVANCE(48)
             ELSE IF lookahead # NUL THEN ADVANCE(49)
             ELSE END_STATE]
    [] state = 49 ->
       [accept |-> aux_sym_yaml_line_token2, next |->
             IF lookahead # NUL /\ lookahead # "\n" THEN ADVANCE(49)
             ELSE END_STATE]

\* ts_lex, case 50 to case 58, with case 53 taking '/' to the close opener
\* (case 52) as case 54 does.
ts_lex_cases_50_58_slash(state, lookahead, eof) ==
  CASE state = 50 ->
       [accept |-> anon_sym_LBRACE_LBRACE_POUND, next |->
             END_STATE]
    [] state = 51 ->
       [accept |-> anon_sym_RBRACE_RBRACE, next |->
             END_STATE]
    [] state = 52 ->
       [accept |-> anon_sym_LBRACE_LBRACE_SLASH, next |->
             END_STATE]
    [] state = 53 ->
       [accept |-> anon_sym_LBRACE_LBRACE, next |->
             IF lookahead = "!" THEN ADVANCE(58)
             ELSE IF lookahead = "#" THEN ADVANCE(50)
             ELSE IF lookahead = "/" THEN ADVANCE(52)
             ELSE END_STATE]
    [] state = 54 ->
       [accept |-> anon_sym_LBRACE_LBRACE, next |->
             IF lookahead = "!" THEN ADVANCE(58)
             ELSE IF lookahead = "#" THEN ADVANCE(50)
             ELSE IF lookahead = "/" THEN ADVANCE(52)
             ELSE END_STATE]
    [] state = 55 ->
       [accept |-> anon_sym_GT, next |->
             END_STATE]
    [] state = 56 ->
       [accept |-> anon_sym_GT, next |->
             IF lookahead = ">" THEN ADVANCE(15)
             ELSE END_STATE]
    [] state = 57 ->
       [accept |-> anon_sym_else, next |->
             IF lookahead = "." \/ Between("0", lookahead, "9") \/ Between("A", lookahead, "Z") \/ lookahead = "_" \/ Between("a", lookahead, "z") THEN ADVANCE(77)
             ELSE END_STATE]
    [] state = 58 ->
       [accept |-> anon_sym_LBRACE_LBRACE_BANG, next |->
             IF lookahead = "-" THEN ADVANCE(9)
             ELSE END_STATE]

\* ts_lex, case 50 to case 58 (parser.c lines 900-938)
ts_lex_cases_50_58(state, lookahead, eof) ==
  CASE state = 50 ->
       [accept |-> anon_sym_LBRACE_LBRACE_POUND, next |->
             END_STATE]
    [] state = 51 ->
       [accept |-> anon_sym_RBRACE_RBRACE, next |->
             END_STATE]
    [] state = 52 ->
       [accept |-> anon_sym_LBRACE_LBRACE_SLASH, next |->
             END_STATE]
    [] state = 53 ->
       [accept |-> anon_sym_LBRACE_LBRACE, next |->
             IF lookahead = "!" THEN ADVANCE(58)
             ELSE IF lookahead = "#" THEN ADVANCE(50)
             ELSE END_STATE]
    [] state = 54 ->
       [accept |-> anon_sym_LBRACE_LBRACE, next |->
             IF lookahead = "!" THEN ADVANCE(58)
             ELSE IF lookahead = "#" THEN ADVANCE(50)
             ELSE IF lookahead = "/" THEN ADVANCE(52)
             ELSE END_STATE]
    [] state = 55 ->
       [accept |-> anon_sym_GT, next |->
             END_STATE]
    [] state = 56 ->
       [accept |-> anon_sym_GT, next |->
             IF lookahead = ">" THEN ADVANCE(15)
             ELSE END_STATE]
    [] state = 57 ->
       [accept |-> anon_sym_else, next |->
             IF lookahead = "." \/ Between("0", lookahead, "9") \/ Between("A", lookahead, "Z") \/ lookahead = "_" \/ Between("a", lookahead, "z") THEN ADVANCE(77)
             ELSE END_STATE]
    [] state = 58 ->
       [accept |-> anon_sym_LBRACE_LBRACE_BANG, next |->
             IF lookahead = "-" THEN ADVANCE(9)
             ELSE END_STATE]

\* ts_lex, case 59 to case 61, with case 60 consuming '}' like any other character.
ts_lex_cases_59_61_brace(state, lookahead, eof) ==
  CASE state = 59 ->
       [accept |-> aux_sym_handlebars_comment_token1, next |->
             IF lookahead = "}" THEN ADVANCE(36)
             ELSE IF Between("\t", lookahead, "\r") \/ lookahead = " " THEN ADVANCE(59)
             ELSE IF lookahead # NUL THEN ADVANCE(60)
             ELSE END_STATE]
    [] state = 60 ->
       [accept |-> aux_sym_handlebars_comment_token1, next |->
             IF lookahead # NUL THEN ADVANCE(60)
             ELSE END_STATE]
    [] state = 61 ->
       [accept |-> anon_sym_LBRACE_LBRACE_BANG_DASH_DASH, next |->
             END_STATE]

\* ts_lex, case 59 to case 61 (parser.c lines 939-953)
ts_lex_cases_59_61(state, lookahead, eof) ==
  CASE state = 59 ->
       [accept |-> aux_sym_handlebars_comment_token1, next |->
             IF lookahead = "}" THEN ADVANCE(36)
             ELSE IF Between("\t", lookahead, "\r") \/ lookahead = " " THEN ADVANCE(59)
             ELSE IF lookahead # NUL THEN ADVANCE(60)
             ELSE END_STATE]
    [] state = 60 ->
       [accept |-> aux_sym_handlebars_comment_token1, next |->
             IF lookahead = "}" THEN ADVANCE(36)
             ELSE IF lookahead # NUL THEN ADVANCE(60)
             ELSE END_STATE]
    [] state = 61 ->
       [accept |-> anon_sym_LBRACE_LBRACE_BANG_DASH_DASH, next |->
             END_STATE]

\* ts_lex, case 62 to case 64 (parser.c lines 954-968)
ts_lex_cases_62_64(state, lookahead, eof) ==
  CASE state = 62 ->
       [accept |-> aux_sym_handlebars_comment_token2, next |->
             IF lookahead = "-" THEN ADVANCE(63)
             ELSE IF Between("\t", lookahead, "\r") \/ lookahead = " " THEN ADVANCE(62)
             ELSE IF lookahead # NUL THEN ADVANCE(63)
             ELSE END_STATE]
    [] state = 63 ->
       [accept |-> aux_sym_handlebars_comment_token2, next |->
             IF lookahead = "-" THEN ADVANCE(63)
             ELSE IF lookahead # NUL THEN ADVANCE(63)
             ELSE END_STATE]
    [] state = 64 ->
       [accept |-> anon_sym_DASH_DASH_RBRACE_RBRACE, next |->
             END_STATE]

\* ts_lex, case 65 to case 66 (parser.c lines 969-978)
ts_lex_cases_65_66(state, lookahead, eof) ==
  CASE state = 65 ->
       [accept |-> anon_sym_EQ, next |->
             END_STATE]
    [] state = 66 ->
       [accept |-> aux_sym_variable_reference_token1, next |->
             IF Between("0", lookahead, "9") \/ Between("A", lookahead, "Z") \/ lookahead = "_" \/ Between("a", lookahead, "z") THEN ADVANCE(66)
             ELSE END_STATE]

\* ts_lex, case 67 to case 77 (parser.c lines 979-1076)
ts_lex_cases_67_77(state, lookahead, eof) ==
  CASE state = 67 ->
       [accept |-> sym_path, next |->
             IF lookahead = "a" THEN ADVANCE(72)
             ELSE IF lookahead = "." \/ Between("0", lookahead, "9") \/ Between("A", lookahead, "Z") \/ lookahead = "_" \/ Between("b", lookahead, "z") THEN ADVANCE(77)
             ELSE END_STATE]
    [] state = 68 ->
       [accept |-> sym_path, next |->
             IF lookahead = "e" THEN ADVANCE(57)
             ELSE IF lookahead = "." \/ Between("0", lookahead, "9") \/ Between("A", lookahead, "Z") \/ lookahead = "_" \/ Between("a", lookahead, "z") THEN ADVANCE(77)
             ELSE END_STATE]
    [] state = 69 ->
       [accept |-> sym_path, next |->
             IF lookahead = "e" THEN ADVANCE(86)
             ELSE IF lookahead = "." \/ Between("0", lookahead, "9") \/ Between("A", lookahead, "Z") \/ lookahead = "_" \/ Between("a", lookahead, "z") THEN ADVANCE(77)
             ELSE END_STATE]
    [] state = 70 ->
       [accept |-> sym_path, next |->
             IF lookahead = "e" THEN ADVANCE(87)
             ELSE IF lookahead = "." \/ Between("0", lookahead, "9") \/ Between("A", lookahead, "Z") \/ lookahead = "_" \/ Between("a", lookahead, "z") THEN ADVANCE(77)
             ELSE END_STATE]
    [] state = 71 ->
       [accept |-> sym_path, next |->
             IF lookahead = "l" THEN ADVANCE(74)
             ELSE IF lookahead = "." \/ Between("0", lookahead, "9") \/ Between("A", lookahead, "Z") \/ lookahead = "_" \/ Between("a", lookahead, "z") THEN ADVANCE(77)
             ELSE END_STATE]
    [] state = 72 ->
       [accept |-> sym_path, next |->
             IF lookahead = "l" THEN ADVANCE(75)
             ELSE IF lookahead = "." \/ Between("0", lookahead, "9") \/ Between("A", lookahead, "Z") \/ lookahead = "_" \/ Between("a", lookahead, "z") THEN ADVANCE(77)
             ELSE END_STATE]
    [] state = 73 ->
       [accept |-> sym_path, next |->
             IF lookahead = "r" THEN ADVANCE(76)
             ELSE IF lookahead = "." \/ Between("0", lookahead, "9") \/ Between("A", lookahead, "Z") \/ lookahead = "_" \/ Between("a", lookahead, "z") THEN ADVANCE(77)
             ELSE END_STATE]
    [] state = 74 ->
       [accept |-> sym_path, next |->
             IF lookahead = "s" THEN ADVANCE(68)
             ELSE IF lookahead = "." \/ Between("0", lookahead, "9") \/ Between("A", lookahead, "Z") \/ lookahead = "_" \/ Between("a", lookahead, "z") THEN ADVANCE(77)
             ELSE END_STATE]
    [] state = 75 ->
       [accept |-> sym_path, next |->
             IF lookahead = "s" THEN ADVANCE(70)
             ELSE IF lookahead = "." \/ Between("0", lookahead, "9") \/ Between("A", lookahead, "Z") \/ lookahead = "_" \/ Between("a", lookahead, "z") THEN ADVANCE(77)
             ELSE END_STATE]
    [] state = 76 ->
       [accept |-> sym_path, next |->
             IF lookahead = "u" THEN ADVANCE(69)
             ELSE IF lookahead = "." \/ Between("0", lookahead, "9") \/ Between("A", lookahead, "Z") \/ lookahead = "_" \/ Between("a", lookahead, "z") THEN ADVANCE(77)
             ELSE END_STATE]
    [] state = 77 ->
       [accept |-> sym_path, next |->
             IF lookahead = "." \/ Between("0", lookahead, "9") \/ Between("A", lookahead, "Z") \/ lookahead = "_" \/ Between("a", lookahead, "z") THEN ADVANCE(77)
             ELSE END_STATE]

\* ts_lex, case 78 to case 83, with the backslash inside a double-quoted string
\* taken as an ordinary character.
ts_lex_cases_78_83_plain(state, lookahead, eof) ==
  CASE state = 78 ->
       [accept |-> anon_sym_DQUOTE, next |->
             END_STATE]
    [] state = 79 ->
       [accept |-> aux_sym_string_literal_token1, next |->
             IF lookahead = "\\" THEN ADVANCE(80)
             ELSE IF Between("\t", lookahead, "\r") \/ lookahead = " " THEN ADVANCE(79)
             ELSE IF lookahead # NUL /\ lookahead # "\"" THEN ADVANCE(80)
             ELSE END_STATE]
    [] state = 80 ->
       [accept |-> aux_sym_string_literal_token1, next |->
             IF lookahead = "\\" THEN ADVANCE(80)
             ELSE IF lookahead # NUL /\ lookahead # "\"" THEN ADVANCE(80)
             ELSE END_STATE]
    [] state = 81 ->
       [accept |-> anon_sym_SQUOTE, next |->
             END_STATE]
    [] state = 82 ->
       [accept |-> aux_sym_string_literal_token2, next |->
             IF lookahead = "\\" THEN ADVANCE(34)
             ELSE IF Between("\t", lookahead, "\r") \/ lookahead = " " THEN ADVANCE(82)
             ELSE IF lookahead # NUL /\ lookahead # "'" THEN ADVANCE(83)
             ELSE END_STATE]
    [] state = 83 ->
       [accept |-> aux_sym_string_literal_token2, next |->
             IF lookahead = "\\" THEN ADVANCE(34)
             ELSE IF lookahead # NUL /\ lookahead # "'" THEN ADVANCE(83)
             ELSE END_STATE]

\* ts_lex, case 78 to case 83 (parser.c lines 1077-1110)
ts_lex_cases_78_83(state, lookahead, eof) ==
  CASE state = 78 ->
       [accept |-> anon_sym_DQUOTE, next |->
             END_STATE]
    [] state = 79 ->
       [accept |-> aux_sym_string_literal_token1, next |->
             IF lookahead = "\\" THEN ADVANCE(35)
             ELSE IF Between("\t", lookahead, "\r") \/ lookahead = " " THEN ADVANCE(79)
             ELSE IF lookahead # NUL /\ lookahead # "\"" THEN ADVANCE(80)
             ELSE END_STATE]
    [] state = 80 ->
       [accept |-> aux_sym_string_literal_token1, next |->
             IF lookahead = "\\" THEN ADVANCE(35)
             ELSE IF lookahead # NUL /\ lookahead # "\"" THEN ADVANCE(80)
             ELSE END_STATE]
    [] state = 81 ->
       [accept |-> anon_sym_SQUOTE, next |->
             END_STATE]
    [] state = 82 ->
       [accept |-> aux_sym_string_literal_token2, next |->
             IF lookahead = "\\" THEN ADVANCE(34)
             ELSE IF Between("\t", lookahead, "\r") \/ lookahead = " " THEN ADVANCE(82)
             ELSE IF lookahead # NUL /\ lookahead # "'" THEN ADVANCE(83)
             ELSE END_STATE]
    [] state = 83 ->
       [accept |-> aux_sym_string_literal_token2, next |->
             IF lookahead = "\\" THEN ADVANCE(34)
             ELSE IF lookahead # NUL /\ lookahead # "'" THEN ADVANCE(83)
             ELSE END_STATE]

\* ts_lex, case 84 to case 88 (parser.c lines 1111-1138)
ts_lex_cases_84_88(state, lookahead, eof) ==
  CASE state = 84 ->
       [accept |-> sym_number, next |->
             IF lookahead = "." THEN ADVANCE(32)
             ELSE IF Between("0", lookahead, "9") THEN ADVANCE(84)
             ELSE END_STATE]
    [] state = 85 ->
       [accept |-> sym_number, next |->
             IF Between("0", lookahead, "9") THEN ADVANCE(85)
             ELSE END_STATE]
    [] state = 86 ->
       [accept |-> anon_sym_true, next |->
             IF lookahead = "." \/ Between("0", lookahead, "9") \/ Between("A", lookahead, "Z") \/ lookahead = "_" \/ Between("a", lookahead, "z") THEN ADVANCE(77)
             ELSE END_STATE]
    [] state = 87 ->
       [accept |-> anon_sym_false, next |->
             IF lookahead = "." \/ Between("0", lookahead, "9") \/ Between("A", lookahead, "Z") \/ lookahead = "_" \/ Between("a", lookahead, "z") THEN ADVANCE(77)
             ELSE END_STATE]
    [] state = 88 ->
       [accept |-> anon_sym_LT_LT_LTdotprompt_COLON, next |->
             END_STATE]

\* ts_lex, case 89 to case 91 (parser.c lines 1139-1153)
ts_lex_cases_89_91(state, lookahead, eof) ==
  CASE state = 89 ->
       [accept |-> aux_sym_dotprompt_marker_token1, next |->
             IF Between("\t", lookahead, "\r") \/ lookahead = " " THEN ADVANCE(89)
             ELSE IF lookahead # NUL /\ lookahead # ">" THEN ADVANCE(90)
             ELSE END_STATE]
    [] state = 90 ->
       [accept |-> aux_sym_dotprompt_marker_token1, next |->
             IF lookahead # NUL /\ lookahead # ">" THEN ADVANCE(90)
             ELSE END_STATE]
    [] state = 91 ->
       [accept |-> anon_sym_GT_GT_GT, next |->
             END_STATE]

\* ts_lex, case 92 to case 102, with case 101 (one '{' read) accepting the opener {{
\* instead of text.
ts_lex_cases_92_102_brace(state, lookahead, eof) ==
  CASE state = 92 ->
       [accept |-> sym_text, next |->
             END_STATE]
    [] state = 93 ->
       [accept |-> sym_text, next |->
             IF lookahead = "#" THEN ADVANCE(41)
             ELSE IF lookahead = "-" THEN ADVANCE(98)
             ELSE IF lookahead = "<" THEN ADVANCE(99)
             ELSE IF lookahead = "{" THEN ADVANCE(101)
             ELSE IF Between("\t", lookahead, "\r") \/ lookahead = " " THEN ADVANCE(93)
             ELSE IF lookahead # NUL THEN ADVANCE(102)
             ELSE END_STATE]
    [] state = 94 ->
       [accept |-> sym_text, next |->
             IF lookahead = "#" THEN ADVANCE(92)
             ELSE IF lookahead = "-" THEN ADVANCE(98)
             ELSE IF lookahead = "<" THEN ADVANCE(99)
             ELSE IF lookahead = "{" THEN ADVANCE(101)
             ELSE IF Between("\t", lookahead, "\r") \/ lookahead = " " THEN ADVANCE(94)
             ELSE IF lookahead # NUL THEN ADVANCE(102)
             ELSE END_STATE]
    [] state = 95 ->
       [accept |-> sym_text, next |->
             IF lookahead = "#" THEN ADVANCE(92)
             ELSE IF lookahead = "<" THEN ADVANCE(99)
             ELSE IF lookahead = "{" THEN ADVANCE(101)
             ELSE IF Between("\t", lookahead, "\r") \/ lookahead = " " THEN ADVANCE(95)
             ELSE IF lookahead # NUL THEN ADVANCE(102)
             ELSE END_STATE]
    [] state = 96 ->
       [accept |-> sym_text, next |->
             IF lookahead = "#" THEN ADVANCE(92)
             ELSE IF lookahead = "<" THEN ADVANCE(99)
             ELSE IF lookahead = "{" THEN ADVANCE(100)
             ELSE IF Between("\t", lookahead, "\r") \/ lookahead = " " THEN ADVANCE(96)
             ELSE IF lookahead # NUL THEN ADVANCE(102)
             ELSE END_STATE]
    [] state = 97 ->
       [accept |-> sym_text, next |->
             IF lookahead = "-" THEN ADVANCE(44)
             ELSE IF lookahead # NUL /\ lookahead # "#" /\ lookahead # "<" /\ lookahead # "{" THEN ADVANCE(102)
             ELSE END_STATE]
    [] state = 98 ->
       [accept |-> sym_text, next |->
             IF lookahead = "-" THEN ADVANCE(97)
             ELSE IF lookahead # NUL /\ lookahead # "#" /\ lookahead # "<" /\ lookahead # "{" THEN ADVANCE(102)
             ELSE END_STATE]
    [] state = 99 ->
       [accept |-> sym_text, next |->
             IF lookahead = "<" THEN ADVANCE(12)
             ELSE END_STATE]
    [] state = 100 ->
       [accept |-> sym_text, next |->
             IF lookahead = "{" THEN ADVANCE(54)
             ELSE END_STATE]
    [] state = 101 ->
       [accept |-> anon_sym_LBRACE_LBRACE, next |->
             IF lookahead = "{" THEN ADVANCE(53)
             ELSE END_STATE]
    [] state = 102 ->
       [accept |-> sym_text, next |->
             IF lookahead # NUL /\ lookahead # "#" /\ lookahead # "<" /\ lookahead # "{" THEN ADVANCE(102)
             ELSE END_STATE]

\* ts_lex, case 92 to case 102 (parser.c lines 1154-1229)
ts_lex_cases_92_102(state, lookahead, eof) ==
  CASE state = 92 ->
       [accept |-> sym_text, next |->
             END_STATE]
    [] state = 93 ->
       [accept |-> sym_text, next |->
             IF lookahead = "#" THEN ADVANCE(41)
             ELSE IF lookahead = "-" THEN ADVANCE(98)
             ELSE IF lookahead = "<" THEN ADVANCE(99)
             ELSE IF lookahead = "{" THEN ADVANCE(101)
             ELSE IF Between("\t", lookahead, "\r") \/ lookahead = " " THEN ADVANCE(93)
             ELSE IF lookahead # NUL THEN ADVANCE(102)
             ELSE END_STATE]
    [] state = 94 ->
       [accept |-> sym_text, next |->
             IF lookahead = "#" THEN ADVANCE(92)
             ELSE IF lookahead = "-" THEN ADVANCE(98)
             ELSE IF lookahead = "<" THEN ADVANCE(99)
             ELSE IF lookahead = "{" THEN ADVANCE(101)
             ELSE IF Between("\t", lookahead, "\r") \/ lookahead = " " THEN ADVANCE(94)
             ELSE IF lookahead # NUL THEN ADVANCE(102)
             ELSE END_STATE]
    [] state = 95 ->
       [accept |-> sym_text, next |->
             IF lookahead = "#" THEN ADVANCE(92)
             ELSE IF lookahead = "<" THEN ADVANCE(99)
             ELSE IF lookahead = "{" THEN ADVANCE(101)
             ELSE IF Between("\t", lookahead, "\r") \/ lookahead = " " THEN ADVANCE(95)
             ELSE IF lookahead # NUL THEN ADVANCE(102)
             ELSE END_STATE]
    [] state = 96 ->
       [accept |-> sym_text, next |->
             IF lookahead = "#" THEN ADVANCE(92)
             ELSE IF lookahead = "<" THEN ADVANCE(99)
             ELSE IF lookahead = "{" THEN ADVANCE(100)
             ELSE IF Between("\t", lookahead, "\r") \/ lookahead = " " THEN ADVANCE(96)
             ELSE IF lookahead # NUL THEN ADVANCE(102)
             ELSE END_STATE]
    [] state = 97 ->
       [accept |-> sym_text, next |->
             IF lookahead = "-" THEN ADVANCE(44)
             ELSE IF lookahead # NUL /\ lookahead # "#" /\ lookahead # "<" /\ lookahead # "{" THEN ADVANCE(102)
             ELSE END_STATE]
    [] state = 98 ->
       [accept |-> sym_text, next |->
             IF lookahead = "-" THEN ADVANCE(97)
             ELSE IF lookahead # NUL /\ lookahead # "#" /\ lookahead # "<" /\ lookahead # "{" THEN ADVANCE(102)
             ELSE END_STATE]
    [] state = 99 ->
       [accept |-> sym_text, next |->
             IF lookahead = "<" THEN ADVANCE(12)
             ELSE END_STATE]
    [] state = 100 ->
       [accept |-> sym_text, next |->
             IF lookahead = "{" THEN ADVANCE(54)
             ELSE END_STATE]
    [] state = 101 ->
       [accept |-> sym_text, next |->
             IF lookahead = "{" THEN ADVANCE(53)
             ELSE END_STATE]
    [] state = 102 ->
       [accept |-> sym_text, next |->
             IF lookahead # NUL /\ lookahead # "#" /\ lookahead # "<" /\ lookahead # "{" THEN ADVANCE(102)
             ELSE END_STATE]

\* ts_lex with `state` kept in a static variable, which the lexer run of the
\* other parse wrote last.
ts_lex_static(state, lookahead, eof) ==
  LET last == IF pass = 2 /\ other.parse.pc = "lex" THEN other.parse.lex_state ELSE state
  IN CASE last = 0 -> ts_lex_case_0(last, lookahead, eof)
       [] last = 1 -> ts_lex_case_1(last, lookahead, eof)
       [] last \in 2..3 -> ts_lex_cases_2_3(last, lookahead, eof)
       [] last = 4 -> ts_lex_case_4(last, lookahead, eof)
       [] last = 5 -> ts_lex_case_5(last, lookahead, eof)
       [] last \in 6..15 -> ts_lex_cases_6_15(last, lookahead, eof)
       [] last = 16 -> ts_lex_case_16(last, lookahead, eof)
       [] last \in 17..28 -> ts_lex_cases_17_28(last, lookahead, eof)
       [] last = 29 -> ts_lex_case_29(last, lookahead, eof)
       [] last = 30 -> ts_lex_case_30(last, lookahead, eof)
       [] last \in 31..36 -> ts_lex_cases_31_36(last, lookahead, eof)
       [] last \in 37..40 -> ts_lex_cases_37_40(last, lookahead, eof)
       [] last \in 41..47 -> ts_lex_cases_41_47(last, lookahead, eof)
       [] last \in 48..49 -> ts_lex_cases_48_49(last, lookahead, eof)
       [] last \in 50..58 -> ts_lex_cases_50_58(last, lookahead, eof)
       [] last \in 59..61 -> ts_lex_cases_59_61(last, lookahead, eof)
       [] last \in 62..64 -> ts_lex_cases_62_64(last, lookahead, eof)
       [] last \in 65..66 -> ts_lex_cases_65_66(last, lookahead, eof)
       [] last \in 67..77 -> ts_lex_cases_67_77(last, lookahead, eof)
       [] last \in 78..83 -> ts_lex_cases_78_83(last, lookahead, eof)
       [] last \in 84..88 -> ts_lex_cases_84_88(last, lookahead, eof)
       [] last \in 89..91 -> ts_lex_cases_89_91(last, lookahead, eof)
       [] last \in 92..102 -> ts_lex_cases_92_102(last, lookahead, eof)
       [] OTHER -> [accept |-> NoToken, next |-> END_STATE]

\* ts_lex: one pass of the switch for the lexer state, the lookahead character and eof.
ts_lex(state, lookahead, eof) ==
  CASE state = 0 -> ts_lex_case_0(state, lookahead, eof)
    [] state = 1 -> ts_lex_case_1(state, lookahead, eof)
    [] state \in 2..3 -> ts_lex_cases_2_3(state, lookahead, eof)
    [] state = 4 -> ts_lex_case_4(state, lookahead, eof)
    [] state = 5 -> ts_lex_case_5(state, lookahead, eof)
    [] state \in 6..15 -> ts_lex_cases_6_15(state, lookahead, eof)
    [] state = 16 -> ts_lex_case_16(state, lookahead, eof)
    [] state \in 17..28 -> ts_lex_cases_17_28(state, lookahead, eof)
    [] state = 29 -> ts_lex_case_29(state, lookahead, eof)
    [] state = 30 -> ts_lex_case_30(state, lookahead, eof)
    [] state \in 31..36 -> ts_lex_cases_31_36(state, lookahead, eof)
    [] state \in 37..40 -> ts_lex_cases_37_40(state, lookahead, eof)
    [] state \in 41..47 -> ts_lex_cases_41_47(state, lookahead, eof)
    [] state \in 48..49 -> ts_lex_cases_48_49(state, lookahead, eof)
    [] state \in 50..58 -> ts_lex_cases_50_58(state, lookahead, eof)
    [] state \in 59..61 -> ts_lex_cases_59_61(state, lookahead, eof)
    [] state \in 62..64 -> ts_lex_cases_62_64(state, lookahead, eof)
    [] state \in 65..66 -> ts_lex_cases_65_66(state, lookahead, eof)
    [] state \in 67..77 -> ts_lex_cases_67_77(state, lookahead, eof)
    [] state \in 78..83 -> ts_lex_cases_78_83(state, lookahead, eof)
    [] state \in 84..88 -> ts_lex_cases_84_88(state, lookahead, eof)
    [] state \in 89..91 -> ts_lex_cases_89_91(state, lookahead, eof)
    [] state \in 92..102 -> ts_lex_cases_92_102(state, lookahead, eof)
    [] OTHER -> [accept |-> NoToken, next |-> END_STATE]
\* ts_lex_modes[parse state].lex_state; the tuple is indexed from 1, the states from 0.
ts_lex_modes_table ==
  << 0, 37, 38, 39, 5, 5, 5, 39,
     5, 5, 39, 39, 3, 3, 3, 3,
     3, 3, 37, 37, 3, 3, 3, 3,
     3, 3, 5, 39, 39, 39, 5, 5,
     5, 4, 4, 4, 5, 39, 39, 39,
     5, 5, 5, 39, 39, 16, 16, 4,
     4, 4, 1, 0, 0, 2, 82, 2,
     79, 0, 0, 0, 2, 29, 0, 2,
     3, 0, 0, 0, 0, 3, 0, 29,
     0, 0, 30, 62, 0, 0, 0, 0,
     59, 0, 29, 59, 62, 30, 29 >>
\* ts_lex_modes with the states that lex template content after the start of
\* the document (lex state 39) lexing like the state after the license header
\* (lex state 38), where --- is a delimiter.
ts_lex_modes_dashes(state) ==
  IF ts_lex_modes_table[state + 1] = 39 THEN 38 ELSE ts_lex_modes_table[state + 1]

ts_lex_modes(state) == ts_lex_modes_table[state + 1]

----------------------------------------------------------------------------
\* The parse tables.

\* STATE(id) and ACTIONS(id) are the table cell for a goto state and for an
\* index into ts_parse_actions (both are reserved words here: STATE_ID, ACTIONS_ID).
STATE_ID(id) == id
ACTIONS_ID(id) == id

\* The parse actions.
SHIFT(state_val) == [type |-> "shift", state |-> state_val, repetition |-> FALSE]
SHIFT_REPEAT(state_val) == [type |-> "shift", state |-> state_val, repetition |-> TRUE]
REDUCE(symbol_name, children, precedence, prod_id) ==
  [type |-> "reduce", symbol |-> symbol_name, child_count |-> children,
   production_id |-> prod_id]
RECOVER == [type |-> "recover"]
ACCEPT_INPUT == [type |-> "accept"]

\* ts_parse_table (large states), state 0 to state 1 (parser.c lines 1326-1373): groups of <<value, symbols>>.
ts_parse_table(state) ==
  CASE state = 0 ->
        << <<ACTIONS_ID(1), {ts_builtin_sym_end}>>,
           <<ACTIONS_ID(1), {sym_header_comment}>>,
           <<ACTIONS_ID(1), {sym_frontmatter_delimiter}>>,
           <<ACTIONS_ID(1), {anon_sym_COLON}>>,
           <<ACTIONS_ID(1), {anon_sym_LBRACE_LBRACE_POUND}>>,
           <<ACTIONS_ID(1), {anon_sym_RBRACE_RBRACE}>>,
           <<ACTIONS_ID(1), {anon_sym_LBRACE_LBRACE_SLASH}>>,
           <<ACTIONS_ID(1), {anon_sym_LBRACE_LBRACE}>>,
           <<ACTIONS_ID(1), {anon_sym_GT}>>,
           <<ACTIONS_ID(1), {anon_sym_else}>>,
           <<ACTIONS_ID(1), {anon_sym_LBRACE_LBRACE_BANG}>>,
           <<ACTIONS_ID(1), {anon_sym_LBRACE_LBRACE_BANG_DASH_DASH}>>,
           <<ACTIONS_ID(1), {anon_sym_DASH_DASH_RBRACE_RBRACE}>>,
           <<ACTIONS_ID(1), {anon_sym_EQ}>>,
           <<ACTIONS_ID(1), {aux_sym_variable_reference_token1}>>,
           <<ACTIONS_ID(1), {sym_path}>>,
           <<ACTIONS_ID(1), {anon_sym_DQUOTE}>>,
           <<ACTIONS_ID(1), {anon_sym_SQUOTE}>>,
           <<ACTIONS_ID(1), {sym_number}>>,
           <<ACTIONS_ID(1), {anon_sym_true}>>,
           <<ACTIONS_ID(1), {anon_sym_false}>>,
           <<ACTIONS_ID(1), {anon_sym_LT_LT_LTdotprompt_COLON}>>,
           <<ACTIONS_ID(1), {anon_sym_GT_GT_GT}>> >>
    [] state = 1 ->
        << <<STATE_ID(73), {sym_document}>>,
           <<STATE_ID(2), {sym_license_header}>>,
           <<STATE_ID(7), {sym_frontmatter}>>,
           <<STATE_ID(72), {sym_template_body}>>,
           <<STATE_ID(10), {sym__content}>>,
           <<STATE_ID(10), {sym_handlebars_block}>>,
           <<STATE_ID(8), {sym_block_expression}>>,
           <<STATE_ID(10), {sym_handlebars_expression}>>,
           <<STATE_ID(10), {sym_handlebars_comment}>>,
           <<STATE_ID(10), {sym_dotprompt_marker}>>,
           <<STATE_ID(18), {aux_sym_license_header_repeat1}>>,
           <<STATE_ID(10), {aux_sym_template_body_repeat1}>>,
           <<ACTIONS_ID(3), {ts_builtin_sym_end}>>,
           <<ACTIONS_ID(5), {sym_header_comment}>>,
           <<ACTIONS_ID(7), {sym_frontmatter_delimiter}>>,
           <<ACTIONS_ID(9), {anon_sym_LBRACE_LBRACE_POUND}>>,
           <<ACTIONS_ID(11), {anon_sym_LBRACE_LBRACE}>>,
           <<ACTIONS_ID(13), {anon_sym_LBRACE_LBRACE_BANG}>>,
           <<ACTIONS_ID(15), {anon_sym_LBRACE_LBRACE_BANG_DASH_DASH}>>,
           <<ACTIONS_ID(17), {anon_sym_LT_LT_LTdotprompt_COLON}>>,
           <<ACTIONS_ID(19), {sym_text}>> >>

\* ts_small_parse_table, state 2 to state 3 (parser.c lines 1377-1432): groups of <<value, symbols>>.
ts_small_parse_table_2_3(state) ==
  CASE state = 2 ->
        << <<ACTIONS_ID(7), {sym_frontmatter_delimiter}>>,
           <<ACTIONS_ID(9), {anon_sym_LBRACE_LBRACE_POUND}>>,
           <<ACTIONS_ID(11), {anon_sym_LBRACE_LBRACE}>>,
           <<ACTIONS_ID(13), {anon_sym_LBRACE_LBRACE_BANG}>>,
           <<ACTIONS_ID(15), {anon_sym_LBRACE_LBRACE_BANG_DASH_DASH}>>,
           <<ACTIONS_ID(17), {anon_sym_LT_LT_LTdotprompt_COLON}>>,
           <<ACTIONS_ID(19), {sym_text}>>,
           <<ACTIONS_ID(21), {ts_builtin_sym_end}>>,
           <<STATE_ID(3), {sym_frontmatter}>>,
           <<STATE_ID(8), {sym_block_expression}>>,
           <<STATE_ID(62), {sym_template_body}>>,
           <<STATE_ID(10), {sym__content, sym_handlebars_block, sym_handlebars_expression, sym_handlebars_comment, sym_dotprompt_marker, aux_sym_template_body_repeat1}>> >>
    [] state = 3 ->
        << <<ACTIONS_ID(9), {anon_sym_LBRACE_LBRACE_POUND}>>,
           <<ACTIONS_ID(11), {anon_sym_LBRACE_LBRACE}>>,
           <<ACTIONS_ID(13), {anon_sym_LBRACE_LBRACE_BANG}>>,
           <<ACTIONS_ID(15), {anon_sym_LBRACE_LBRACE_BANG_DASH_DASH}>>,
           <<ACTIONS_ID(17), {anon_sym_LT_LT_LTdotprompt_COLON}>>,
           <<ACTIONS_ID(19), {sym_text}>>,
           <<ACTIONS_ID(23), {ts_builtin_sym_end}>>,
           <<STATE_ID(8), {sym_block_expression}>>,
           <<STATE_ID(68), {sym_template_body}>>,
           <<STATE_ID(10), {sym__content, sym_handlebars_block, sym_handlebars_expression, sym_handlebars_comment, sym_dotprompt_marker, aux_sym_template_body_repeat1}>> >>

\* ts_small_parse_table states 4 to 6 with the end of the input listed next to
\* sym_text in state 6: inside a block the end is shifted like text.
ts_small_parse_table_4_6_end_shift(state) ==
  CASE state = 4 ->
        << <<ACTIONS_ID(9), {anon_sym_LBRACE_LBRACE_POUND}>>,
           <<ACTIONS_ID(25), {anon_sym_LBRACE_LBRACE_SLASH}>>,
           <<ACTIONS_ID(27), {anon_sym_LBRACE_LBRACE}>>,
           <<ACTIONS_ID(29), {anon_sym_LBRACE_LBRACE_BANG}>>,
           <<ACTIONS_ID(31), {anon_sym_LBRACE_LBRACE_BANG_DASH_DASH}>>,
           <<ACTIONS_ID(33), {anon_sym_LT_LT_LTdotprompt_COLON}>>,
           <<ACTIONS_ID(35), {sym_text}>>,
           <<STATE_ID(5), {sym_block_expression}>>,
           <<STATE_ID(41), {sym_close_block}>>,
           <<STATE_ID(9), {sym__content, sym_handlebars_block, sym_handlebars_expression, sym_handlebars_comment, sym_dotprompt_marker, aux_sym_template_body_repeat1}>> >>
    [] state = 5 ->
        << <<ACTIONS_ID(9), {anon_sym_LBRACE_LBRACE_POUND}>>,
           <<ACTIONS_ID(25), {anon_sym_LBRACE_LBRACE_SLASH}>>,
           <<ACTIONS_ID(27), {anon_sym_LBRACE_LBRACE}>>,
           <<ACTIONS_ID(29), {anon_sym_LBRACE_LBRACE_BANG}>>,
           <<ACTIONS_ID(31), {anon_sym_LBRACE_LBRACE_BANG_DASH_DASH}>>,
           <<ACTIONS_ID(33), {anon_sym_LT_LT_LTdotprompt_COLON}>>,
           <<ACTIONS_ID(37), {sym_text}>>,
           <<STATE_ID(5), {sym_block_expression}>>,
           <<STATE_ID(30), {sym_close_block}>>,
           <<STATE_ID(4), {sym__content, sym_handlebars_block, sym_handlebars_expression, sym_handlebars_comment, sym_dotprompt_marker, aux_sym_template_body_repeat1}>> >>
    [] state = 6 ->
        << <<ACTIONS_ID(9), {anon_sym_LBRACE_LBRACE_POUND}>>,
           <<ACTIONS_ID(27), {anon_sym_LBRACE_LBRACE}>>,
           <<ACTIONS_ID(29), {anon_sym_LBRACE_LBRACE_BANG}>>,
           <<ACTIONS_ID(31), {anon_sym_LBRACE_LBRACE_BANG_DASH_DASH}>>,
           <<ACTIONS_ID(33), {anon_sym_LT_LT_LTdotprompt_COLON}>>,
           <<ACTIONS_ID(35), {sym_text, ts_builtin_sym_end}>>,
           <<ACTIONS_ID(39), {anon_sym_LBRACE_LBRACE_SLASH}>>,
           <<STATE_ID(5), {sym_block_expression}>>,
           <<STATE_ID(39), {sym_close_block}>>,
           <<STATE_ID(9), {sym__content, sym_handlebars_block, sym_handlebars_expression, sym_handlebars_comment, sym_dotprompt_marker, aux_sym_template_body_repeat1}>> >>

\* ts_small_parse_table, state 4 to state 6 (parser.c lines 1433-1510): groups of <<value, symbols>>.
ts_small_parse_table_4_6(state) ==
  CASE state = 4 ->
        << <<ACTIONS_ID(9), {anon_sym_LBRACE_LBRACE_POUND}>>,
           <<ACTIONS_ID(25), {anon_sym_LBRACE_LBRACE_SLASH}>>,
           <<ACTIONS_ID(27), {anon_sym_LBRACE_LBRACE}>>,
           <<ACTIONS_ID(29), {anon_sym_LBRACE_LBRACE_BANG}>>,
           <<ACTIONS_ID(31), {anon_sym_LBRACE_LBRACE_BANG_DASH_DASH}>>,
           <<ACTIONS_ID(33), {anon_sym_LT_LT_LTdotprompt_COLON}>>,
           <<ACTIONS_ID(35), {sym_text}>>,
           <<STATE_ID(5), {sym_block_expression}>>,
           <<STATE_ID(41), {sym_close_block}>>,
           <<STATE_ID(9), {sym__content, sym_handlebars_block, sym_handlebars_expression, sym_handlebars_comment, sym_dotprompt_marker, aux_sym_template_body_repeat1}>> >>
    [] state = 5 ->
        << <<ACTIONS_ID(9), {anon_sym_LBRACE_LBRACE_POUND}>>,
           <<ACTIONS_ID(25), {anon_sym_LBRACE_LBRACE_SLASH}>>,
           <<ACTIONS_ID(27), {anon_sym_LBRACE_LBRACE}>>,
           <<ACTIONS_ID(29), {anon_sym_LBRACE_LBRACE_BANG}>>,
           <<ACTIONS_ID(31), {anon_sym_LBRACE_LBRACE_BANG_DASH_DASH}>>,
           <<ACTIONS_ID(33), {anon_sym_LT_LT_LTdotprompt_COLON}>>,
           <<ACTIONS_ID(37), {sym_text}>>,
           <<STATE_ID(5), {sym_block_expression}>>,
           <<STATE_ID(30), {sym_close_block}>>,
           <<STATE_ID(4), {sym__content, sym_handlebars_block, sym_handlebars_expression, sym_handlebars_comment, sym_dotprompt_marker, aux_sym_template_body_repeat1}>> >>
    [] state = 6 ->
        << <<ACTIONS_ID(9), {anon_sym_LBRACE_LBRACE_POUND}>>,
           <<ACTIONS_ID(27), {anon_sym_LBRACE_LBRACE}>>,
           <<ACTIONS_ID(29), {anon_sym_LBRACE_LBRACE_BANG}>>,
           <<ACTIONS_ID(31), {anon_sym_LBRACE_LBRACE_BANG_DASH_DASH}>>,
           <<ACTIONS_ID(33), {anon_sym_LT_LT_LTdotprompt_COLON}>>,
           <<ACTIONS_ID(35), {sym_text}>>,
           <<ACTIONS_ID(39), {anon_sym_LBRACE_LBRACE_SLASH}>>,
           <<STATE_ID(5), {sym_block_expression}>>,
           <<STATE_ID(39), {sym_close_block}>>,
           <<STATE_ID(9), {sym__content, sym_handlebars_block, sym_handlebars_expression, sym_handlebars_comment, sym_dotprompt_marker, aux_sym_template_body_repeat1}>> >>

\* ts_small_parse_table, state 7 (parser.c lines 1511-1536): groups of <<value, symbols>>.
ts_small_parse_table_7(state) ==
  CASE state = 7 ->
        << <<ACTIONS_ID(9), {anon_sym_LBRACE_LBRACE_POUND}>>,
           <<ACTIONS_ID(11), {anon_sym_LBRACE_LBRACE}>>,
           <<ACTIONS_ID(13), {anon_sym_LBRACE_LBRACE_BANG}>>,
           <<ACTIONS_ID(15), {anon_sym_LBRACE_LBRACE_BANG_DASH_DASH}>>,
           <<ACTIONS_ID(17), {anon_sym_LT_LT_LTdotprompt_COLON}>>,
           <<ACTIONS_ID(19), {sym_text}>>,
           <<ACTIONS_ID(21), {ts_builtin_sym_end}>>,
           <<STATE_ID(8), {sym_block_expression}>>,
           <<STATE_ID(62), {sym_template_body}>>,
           <<STATE_ID(10), {sym__content, sym_handlebars_block, sym_handlebars_expression, sym_handlebars_comment, sym_dotprompt_marker, aux_sym_template_body_repeat1}>> >>

\* ts_small_parse_table, state 8 to state 9 (parser.c lines 1537-1586): groups of <<value, symbols>>.
ts_small_parse_table_8_9(state) ==
  CASE state = 8 ->
        << <<ACTIONS_ID(9), {anon_sym_LBRACE_LBRACE_POUND}>>,
           <<ACTIONS_ID(27), {anon_sym_LBRACE_LBRACE}>>,
           <<ACTIONS_ID(29), {anon_sym_LBRACE_LBRACE_BANG}>>,
           <<ACTIONS_ID(31), {anon_sym_LBRACE_LBRACE_BANG_DASH_DASH}>>,
           <<ACTIONS_ID(33), {anon_sym_LT_LT_LTdotprompt_COLON}>>,
           <<ACTIONS_ID(39), {anon_sym_LBRACE_LBRACE_SLASH}>>,
           <<ACTIONS_ID(41), {sym_text}>>,
           <<STATE_ID(5), {sym_block_expression}>>,
           <<STATE_ID(29), {sym_close_block}>>,
           <<STATE_ID(6), {sym__content, sym_handlebars_block, sym_handlebars_expression, sym_handlebars_comment, sym_dotprompt_marker, aux_sym_template_body_repeat1}>> >>
    [] state = 9 ->
        << <<ACTIONS_ID(43), {anon_sym_LBRACE_LBRACE_POUND}>>,
           <<ACTIONS_ID(46), {anon_sym_LBRACE_LBRACE_SLASH}>>,
           <<ACTIONS_ID(48), {anon_sym_LBRACE_LBRACE}>>,
           <<ACTIONS_ID(51), {anon_sym_LBRACE_LBRACE_BANG}>>,
           <<ACTIONS_ID(54), {anon_sym_LBRACE_LBRACE_BANG_DASH_DASH}>>,
           <<ACTIONS_ID(57), {anon_sym_LT_LT_LTdotprompt_COLON}>>,
           <<ACTIONS_ID(60), {sym_text}>>,
           <<STATE_ID(5), {sym_block_expression}>>,
           <<STATE_ID(9), {sym__content, sym_handlebars_block, sym_handlebars_expression, sym_handlebars_comment, sym_dotprompt_marker, aux_sym_template_body_repeat1}>> >>

\* ts_small_parse_table, state 10 to state 11 (parser.c lines 1587-1634): groups of <<value, symbols>>.
ts_small_parse_table_10_11(state) ==
  CASE state = 10 ->
        << <<ACTIONS_ID(9), {anon_sym_LBRACE_LBRACE_POUND}>>,
           <<ACTIONS_ID(11), {anon_sym_LBRACE_LBRACE}>>,
           <<ACTIONS_ID(13), {anon_sym_LBRACE_LBRACE_BANG}>>,
           <<ACTIONS_ID(15), {anon_sym_LBRACE_LBRACE_BANG_DASH_DASH}>>,
           <<ACTIONS_ID(17), {anon_sym_LT_LT_LTdotprompt_COLON}>>,
           <<ACTIONS_ID(63), {ts_builtin_sym_end}>>,
           <<ACTIONS_ID(65), {sym_text}>>,
           <<STATE_ID(8), {sym_block_expression}>>,
           <<STATE_ID(11), {sym__content, sym_handlebars_block, sym_handlebars_expression, sym_handlebars_comment, sym_dotprompt_marker, aux_sym_template_body_repeat1}>> >>
    [] state = 11 ->
        << <<ACTIONS_ID(43), {anon_sym_LBRACE_LBRACE_POUND}>>,
           <<ACTIONS_ID(67), {ts_builtin_sym_end}>>,
           <<ACTIONS_ID(69), {anon_sym_LBRACE_LBRACE}>>,
           <<ACTIONS_ID(72), {anon_sym_LBRACE_LBRACE_BANG}>>,
           <<ACTIONS_ID(75), {anon_sym_LBRACE_LBRACE_BANG_DASH_DASH}>>,
           <<ACTIONS_ID(78), {anon_sym_LT_LT_LTdotprompt_COLON}>>,
           <<ACTIONS_ID(81), {sym_text}>>,
           <<STATE_ID(8), {sym_block_expression}>>,
           <<STATE_ID(11), {sym__content, sym_handlebars_block, sym_handlebars_expression, sym_handlebars_comment, sym_dotprompt_marker, aux_sym_template_body_repeat1}>> >>

\* ts_small_parse_table, state 12 to state 17 (parser.c lines 1635-1772): groups of <<value, symbols>>.
ts_small_parse_table_12_17(state) ==
  CASE state = 12 ->
        << <<ACTIONS_ID(84), {anon_sym_RBRACE_RBRACE}>>,
           <<ACTIONS_ID(86), {aux_sym_variable_reference_token1}>>,
           <<ACTIONS_ID(88), {sym_path}>>,
           <<ACTIONS_ID(90), {anon_sym_DQUOTE}>>,
           <<ACTIONS_ID(92), {anon_sym_SQUOTE}>>,
           <<ACTIONS_ID(94), {sym_number}>>,
           <<ACTIONS_ID(96), {anon_sym_true, anon_sym_false}>>,
           <<STATE_ID(16), {sym_argument, aux_sym_block_expression_repeat1}>>,
           <<STATE_ID(21), {sym_hash_param, sym_variable_reference, sym_string_literal, sym_boolean}>> >>
    [] state = 13 ->
        << <<ACTIONS_ID(98), {anon_sym_RBRACE_RBRACE}>>,
           <<ACTIONS_ID(100), {aux_sym_variable_reference_token1}>>,
           <<ACTIONS_ID(103), {sym_path}>>,
           <<ACTIONS_ID(106), {anon_sym_DQUOTE}>>,
           <<ACTIONS_ID(109), {anon_sym_SQUOTE}>>,
           <<ACTIONS_ID(112), {sym_number}>>,
           <<ACTIONS_ID(115), {anon_sym_true, anon_sym_false}>>,
           <<STATE_ID(13), {sym_argument, aux_sym_block_expression_repeat1}>>,
           <<STATE_ID(21), {sym_hash_param, sym_variable_reference, sym_string_literal, sym_boolean}>> >>
    [] state = 14 ->
        << <<ACTIONS_ID(86), {aux_sym_variable_reference_token1}>>,
           <<ACTIONS_ID(88), {sym_path}>>,
           <<ACTIONS_ID(90), {anon_sym_DQUOTE}>>,
           <<ACTIONS_ID(92), {anon_sym_SQUOTE}>>,
           <<ACTIONS_ID(94), {sym_number}>>,
           <<ACTIONS_ID(118), {anon_sym_RBRACE_RBRACE}>>,
           <<ACTIONS_ID(96), {anon_sym_true, anon_sym_false}>>,
           <<STATE_ID(15), {sym_argument, aux_sym_block_expression_repeat1}>>,
           <<STATE_ID(21), {sym_hash_param, sym_variable_reference, sym_string_literal, sym_boolean}>> >>
    [] state = 15 ->
        << <<ACTIONS_ID(86), {aux_sym_variable_reference_token1}>>,
           <<ACTIONS_ID(88), {sym_path}>>,
           <<ACTIONS_ID(90), {anon_sym_DQUOTE}>>,
           <<ACTIONS_ID(92), {anon_sym_SQUOTE}>>,
           <<ACTIONS_ID(94), {sym_number}>>,
           <<ACTIONS_ID(120), {anon_sym_RBRACE_RBRACE}>>,
           <<ACTIONS_ID(96), {anon_sym_true, anon_sym_false}>>,
           <<STATE_ID(13), {sym_argument, aux_sym_block_expression_repeat1}>>,
           <<STATE_ID(21), {sym_hash_param, sym_variable_reference, sym_string_literal, sym_boolean}>> >>
    [] state = 16 ->
        << <<ACTIONS_ID(86), {aux_sym_variable_reference_token1}>>,
           <<ACTIONS_ID(88), {sym_path}>>,
           <<ACTIONS_ID(90), {anon_sym_DQUOTE}>>,
           <<ACTIONS_ID(92), {anon_sym_SQUOTE}>>,
           <<ACTIONS_ID(94), {sym_number}>>,
           <<ACTIONS_ID(122), {anon_sym_RBRACE_RBRACE}>>,
           <<ACTIONS_ID(96), {anon_sym_true, anon_sym_false}>>,
           <<STATE_ID(13), {sym_argument, aux_sym_block_expression_repeat1}>>,
           <<STATE_ID(21), {sym_hash_param, sym_variable_reference, sym_string_literal, sym_boolean}>> >>
    [] state = 17 ->
        << <<ACTIONS_ID(86), {aux_sym_variable_reference_token1}>>,
           <<ACTIONS_ID(90), {anon_sym_DQUOTE}>>,
           <<ACTIONS_ID(92), {anon_sym_SQUOTE}>>,
           <<ACTIONS_ID(124), {sym_path}>>,
           <<ACTIONS_ID(126), {sym_number}>>,
           <<ACTIONS_ID(96), {anon_sym_true, anon_sym_false}>>,
           <<STATE_ID(24), {sym_variable_reference, sym_string_literal, sym_boolean}>> >>

\* ts_small_parse_table, state 18 to state 19 (parser.c lines 1773-1802): groups of <<value, symbols>>.
ts_small_parse_table_18_19(state) ==
  CASE state = 18 ->
        << <<ACTIONS_ID(128), {ts_builtin_sym_end}>>,
           <<ACTIONS_ID(130), {sym_header_comment}>>,
           <<STATE_ID(19), {aux_sym_license_header_repeat1}>>,
           <<ACTIONS_ID(132), {sym_frontmatter_delimiter, anon_sym_LBRACE_LBRACE_POUND, anon_sym_LBRACE_LBRACE, anon_sym_LBRACE_LBRACE_BANG, anon_sym_LBRACE_LBRACE_BANG_DASH_DASH, anon_sym_LT_LT_LTdotprompt_COLON, sym_text}>> >>
    [] state = 19 ->
        << <<ACTIONS_ID(134), {ts_builtin_sym_end}>>,
           <<ACTIONS_ID(136), {sym_header_comment}>>,
           <<STATE_ID(19), {aux_sym_license_header_repeat1}>>,
           <<ACTIONS_ID(139), {sym_frontmatter_delimiter, anon_sym_LBRACE_LBRACE_POUND, anon_sym_LBRACE_LBRACE, anon_sym_LBRACE_LBRACE_BANG, anon_sym_LBRACE_LBRACE_BANG_DASH_DASH, anon_sym_LT_LT_LTdotprompt_COLON, sym_text}>> >>

\* ts_small_parse_table, state 20 to state 25 (parser.c lines 1803-1870): groups of <<value, symbols>>.
ts_small_parse_table_20_25(state) ==
  CASE state = 20 ->
        << <<ACTIONS_ID(141), {anon_sym_EQ}>>,
           <<ACTIONS_ID(143), {sym_path, anon_sym_true, anon_sym_false}>>,
           <<ACTIONS_ID(118), {anon_sym_RBRACE_RBRACE, aux_sym_variable_reference_token1, anon_sym_DQUOTE, anon_sym_SQUOTE, sym_number}>> >>
    [] state = 21 ->
        << <<ACTIONS_ID(147), {sym_path, anon_sym_true, anon_sym_false}>>,
           <<ACTIONS_ID(145), {anon_sym_RBRACE_RBRACE, aux_sym_variable_reference_token1, anon_sym_DQUOTE, anon_sym_SQUOTE, sym_number}>> >>
    [] state = 22 ->
        << <<ACTIONS_ID(143), {sym_path, anon_sym_true, anon_sym_false}>>,
           <<ACTIONS_ID(118), {anon_sym_RBRACE_RBRACE, aux_sym_variable_reference_token1, anon_sym_DQUOTE, anon_sym_SQUOTE, sym_number}>> >>
    [] state = 23 ->
        << <<ACTIONS_ID(151), {sym_path, anon_sym_true, anon_sym_false}>>,
           <<ACTIONS_ID(149), {anon_sym_RBRACE_RBRACE, aux_sym_variable_reference_token1, anon_sym_DQUOTE, anon_sym_SQUOTE, sym_number}>> >>
    [] state = 24 ->
        << <<ACTIONS_ID(155), {sym_path, anon_sym_true, anon_sym_false}>>,
           <<ACTIONS_ID(153), {anon_sym_RBRACE_RBRACE, aux_sym_variable_reference_token1, anon_sym_DQUOTE, anon_sym_SQUOTE, sym_number}>> >>
    [] state = 25 ->
        << <<ACTIONS_ID(159), {sym_path, anon_sym_true, anon_sym_false}>>,
           <<ACTIONS_ID(157), {anon_sym_RBRACE_RBRACE, aux_sym_variable_reference_token1, anon_sym_DQUOTE, anon_sym_SQUOTE, sym_number}>> >>

\* ts_small_parse_table, state 26 to state 32 (parser.c lines 1871-1936): groups of <<value, symbols>>.
ts_small_parse_table_26_32(state) ==
  CASE state = 26 ->
        << <<ACTIONS_ID(161), {anon_sym_LBRACE_LBRACE_POUND, anon_sym_LBRACE_LBRACE_SLASH, anon_sym_LBRACE_LBRACE, anon_sym_LBRACE_LBRACE_BANG, anon_sym_LBRACE_LBRACE_BANG_DASH_DASH, anon_sym_LT_LT_LTdotprompt_COLON, sym_text}>> >>
    [] state = 27 ->
        << <<ACTIONS_ID(163), {ts_builtin_sym_end}>>,
           <<ACTIONS_ID(165), {anon_sym_LBRACE_LBRACE_POUND, anon_sym_LBRACE_LBRACE, anon_sym_LBRACE_LBRACE_BANG, anon_sym_LBRACE_LBRACE_BANG_DASH_DASH, anon_sym_LT_LT_LTdotprompt_COLON, sym_text}>> >>
    [] state = 28 ->
        << <<ACTIONS_ID(167), {ts_builtin_sym_end}>>,
           <<ACTIONS_ID(169), {anon_sym_LBRACE_LBRACE_POUND, anon_sym_LBRACE_LBRACE, anon_sym_LBRACE_LBRACE_BANG, anon_sym_LBRACE_LBRACE_BANG_DASH_DASH, anon_sym_LT_LT_LTdotprompt_COLON, sym_text}>> >>
    [] state = 29 ->
        << <<ACTIONS_ID(171), {ts_builtin_sym_end}>>,
           <<ACTIONS_ID(173), {anon_sym_LBRACE_LBRACE_POUND, anon_sym_LBRACE_LBRACE, anon_sym_LBRACE_LBRACE_BANG, anon_sym_LBRACE_LBRACE_BANG_DASH_DASH, anon_sym_LT_LT_LTdotprompt_COLON, sym_text}>> >>
    [] state = 30 ->
        << <<ACTIONS_ID(173), {anon_sym_LBRACE_LBRACE_POUND, anon_sym_LBRACE_LBRACE_SLASH, anon_sym_LBRACE_LBRACE, anon_sym_LBRACE_LBRACE_BANG, anon_sym_LBRACE_LBRACE_BANG_DASH_DASH, anon_sym_LT_LT_LTdotprompt_COLON, sym_text}>> >>
    [] state = 31 ->
        << <<ACTIONS_ID(175), {anon_sym_LBRACE_LBRACE_POUND, anon_sym_LBRACE_LBRACE_SLASH, anon_sym_LBRACE_LBRACE, anon_sym_LBRACE_LBRACE_BANG, anon_sym_LBRACE_LBRACE_BANG_DASH_DASH, anon_sym_LT_LT_LTdotprompt_COLON, sym_text}>> >>
    [] state = 32 ->
        << <<ACTIONS_ID(177), {anon_sym_LBRACE_LBRACE_POUND, anon_sym_LBRACE_LBRACE_SLASH, anon_sym_LBRACE_LBRACE, anon_sym_LBRACE_LBRACE_BANG, anon_sym_LBRACE_LBRACE_BANG_DASH_DASH, anon_sym_LT_LT_LTdotprompt_COLON, sym_text}>> >>

\* ts_small_parse_table, state 33 to state 35 (parser.c lines 1937-1975): groups of <<value, symbols>>.
ts_small_parse_table_33_35(state) ==
  CASE state = 33 ->
        << <<ACTIONS_ID(181), {sym_frontmatter_delimiter}>>,
           <<ACTIONS_ID(183), {aux_sym_yaml_line_token1}>>,
           <<STATE_ID(35), {aux_sym_frontmatter_repeat1}>>,
           <<ACTIONS_ID(179), {sym_header_comment, aux_sym__yaml_content_token1}>>,
           <<STATE_ID(49), {sym__yaml_content, sym_yaml_line}>> >>
    [] state = 34 ->
        << <<ACTIONS_ID(188), {sym_frontmatter_delimiter}>>,
           <<ACTIONS_ID(190), {aux_sym_yaml_line_token1}>>,
           <<STATE_ID(34), {aux_sym_frontmatter_repeat1}>>,
           <<ACTIONS_ID(185), {sym_header_comment, aux_sym__yaml_content_token1}>>,
           <<STATE_ID(49), {sym__yaml_content, sym_yaml_line}>> >>
    [] state = 35 ->
        << <<ACTIONS_ID(183), {aux_sym_yaml_line_token1}>>,
           <<ACTIONS_ID(193), {sym_frontmatter_delimiter}>>,
           <<STATE_ID(34), {aux_sym_frontmatter_repeat1}>>,
           <<ACTIONS_ID(179), {sym_header_comment, aux_sym__yaml_content_token1}>>,
           <<STATE_ID(49), {sym__yaml_content, sym_yaml_line}>> >>

\* ts_small_parse_table, state 36 to state 44 (parser.c lines 1976-2061): groups of <<value, symbols>>.
ts_small_parse_table_36_44(state) ==
  CASE state = 36 ->
        << <<ACTIONS_ID(195), {anon_sym_LBRACE_LBRACE_POUND, anon_sym_LBRACE_LBRACE_SLASH, anon_sym_LBRACE_LBRACE, anon_sym_LBRACE_LBRACE_BANG, anon_sym_LBRACE_LBRACE_BANG_DASH_DASH, anon_sym_LT_LT_LTdotprompt_COLON, sym_text}>> >>
    [] state = 37 ->
        << <<ACTIONS_ID(197), {ts_builtin_sym_end}>>,
           <<ACTIONS_ID(199), {anon_sym_LBRACE_LBRACE_POUND, anon_sym_LBRACE_LBRACE, anon_sym_LBRACE_LBRACE_BANG, anon_sym_LBRACE_LBRACE_BANG_DASH_DASH, anon_sym_LT_LT_LTdotprompt_COLON, sym_text}>> >>
    [] state = 38 ->
        << <<ACTIONS_ID(201), {ts_builtin_sym_end}>>,
           <<ACTIONS_ID(203), {anon_sym_LBRACE_LBRACE_POUND, anon_sym_LBRACE_LBRACE, anon_sym_LBRACE_LBRACE_BANG, anon_sym_LBRACE_LBRACE_BANG_DASH_DASH, anon_sym_LT_LT_LTdotprompt_COLON, sym_text}>> >>
    [] state = 39 ->
        << <<ACTIONS_ID(205), {ts_builtin_sym_end}>>,
           <<ACTIONS_ID(207), {anon_sym_LBRACE_LBRACE_POUND, anon_sym_LBRACE_LBRACE, anon_sym_LBRACE_LBRACE_BANG, anon_sym_LBRACE_LBRACE_BANG_DASH_DASH, anon_sym_LT_LT_LTdotprompt_COLON, sym_text}>> >>
    [] state = 40 ->
        << <<ACTIONS_ID(199), {anon_sym_LBRACE_LBRACE_POUND, anon_sym_LBRACE_LBRACE_SLASH, anon_sym_LBRACE_LBRACE, anon_sym_LBRACE_LBRACE_BANG, anon_sym_LBRACE_LBRACE_BANG_DASH_DASH, anon_sym_LT_LT_LTdotprompt_COLON, sym_text}>> >>
    [] state = 41 ->
        << <<ACTIONS_ID(207), {anon_sym_LBRACE_LBRACE_POUND, anon_sym_LBRACE_LBRACE_SLASH, anon_sym_LBRACE_LBRACE, anon_sym_LBRACE_LBRACE_BANG, anon_sym_LBRACE_LBRACE_BANG_DASH_DASH, anon_sym_LT_LT_LTdotprompt_COLON, sym_text}>> >>
    [] state = 42 ->
        << <<ACTIONS_ID(165), {anon_sym_LBRACE_LBRACE_POUND, anon_sym_LBRACE_LBRACE_SLASH, anon_sym_LBRACE_LBRACE, anon_sym_LBRACE_LBRACE_BANG, anon_sym_LBRACE_LBRACE_BANG_DASH_DASH, anon_sym_LT_LT_LTdotprompt_COLON, sym_text}>> >>
    [] state = 43 ->
        << <<ACTIONS_ID(209), {ts_builtin_sym_end}>>,
           <<ACTIONS_ID(175), {anon_sym_LBRACE_LBRACE_POUND, anon_sym_LBRACE_LBRACE, anon_sym_LBRACE_LBRACE_BANG, anon_sym_LBRACE_LBRACE_BANG_DASH_DASH, anon_sym_LT_LT_LTdotprompt_COLON, sym_text}>> >>
    [] state = 44 ->
        << <<ACTIONS_ID(211), {ts_builtin_sym_end}>>,
           <<ACTIONS_ID(161), {anon_sym_LBRACE_LBRACE_POUND, anon_sym_LBRACE_LBRACE, anon_sym_LBRACE_LBRACE_BANG, anon_sym_LBRACE_LBRACE_BANG_DASH_DASH, anon_sym_LT_LT_LTdotprompt_COLON, sym_text}>> >>

\* ts_small_parse_table, state 45 to state 46 (parser.c lines 2062-2087): groups of <<value, symbols>>.
ts_small_parse_table_45_46(state) ==
  CASE state = 45 ->
        << <<ACTIONS_ID(86), {aux_sym_variable_reference_token1}>>,
           <<ACTIONS_ID(213), {anon_sym_GT}>>,
           <<ACTIONS_ID(215), {anon_sym_else}>>,
           <<ACTIONS_ID(217), {sym_path}>>,
           <<STATE_ID(67), {sym_variable_reference}>>,
           <<STATE_ID(76), {sym_expression_content}>> >>
    [] state = 46 ->
        << <<ACTIONS_ID(86), {aux_sym_variable_reference_token1}>>,
           <<ACTIONS_ID(213), {anon_sym_GT}>>,
           <<ACTIONS_ID(215), {anon_sym_else}>>,
           <<ACTIONS_ID(217), {sym_path}>>,
           <<STATE_ID(67), {sym_variable_reference}>>,
           <<STATE_ID(79), {sym_expression_content}>> >>

\* ts_small_parse_table, state 47 to state 50 (parser.c lines 2088-2110): groups of <<value, symbols>>.
ts_small_parse_table_47_50(state) ==
  CASE state = 47 ->
        << <<ACTIONS_ID(219), {sym_header_comment, sym_frontmatter_delimiter, aux_sym__yaml_content_token1, aux_sym_yaml_line_token1}>> >>
    [] state = 48 ->
        << <<ACTIONS_ID(221), {sym_header_comment, sym_frontmatter_delimiter, aux_sym__yaml_content_token1, aux_sym_yaml_line_token1}>> >>
    [] state = 49 ->
        << <<ACTIONS_ID(223), {sym_header_comment, sym_frontmatter_delimiter, aux_sym__yaml_content_token1, aux_sym_yaml_line_token1}>> >>
    [] state = 50 ->
        << <<ACTIONS_ID(225), {aux_sym_frontmatter_token1}>>,
           <<ACTIONS_ID(227), {aux_sym_yaml_line_token2}>> >>

\* ts_small_parse_table, state 51 to state 60 (parser.c lines 2111-2140): groups of <<value, symbols>>.
ts_small_parse_table_51_60(state) ==
  CASE state = 51 ->
        << <<ACTIONS_ID(229), {anon_sym_RBRACE_RBRACE}>> >>
    [] state = 52 ->
        << <<ACTIONS_ID(231), {anon_sym_RBRACE_RBRACE}>> >>
    [] state = 53 ->
        << <<ACTIONS_ID(233), {aux_sym_frontmatter_token1}>> >>
    [] state = 54 ->
        << <<ACTIONS_ID(235), {aux_sym_string_literal_token2}>> >>
    [] state = 55 ->
        << <<ACTIONS_ID(237), {aux_sym_frontmatter_token1}>> >>
    [] state = 56 ->
        << <<ACTIONS_ID(239), {aux_sym_string_literal_token1}>> >>
    [] state = 57 ->
        << <<ACTIONS_ID(241), {anon_sym_DQUOTE}>> >>
    [] state = 58 ->
        << <<ACTIONS_ID(241), {anon_sym_SQUOTE}>> >>
    [] state = 59 ->
        << <<ACTIONS_ID(243), {anon_sym_COLON}>> >>
    [] state = 60 ->
        << <<ACTIONS_ID(245), {aux_sym_frontmatter_token1}>> >>

\* ts_small_parse_table, state 61 (parser.c lines 2141-2143): groups of <<value, symbols>>.
ts_small_parse_table_61(state) ==
  CASE state = 61 ->
        << <<ACTIONS_ID(247), {sym_path}>> >>

\* ts_small_parse_table, state 62 to state 64 (parser.c lines 2144-2152): groups of <<value, symbols>>.
ts_small_parse_table_62_64(state) ==
  CASE state = 62 ->
        << <<ACTIONS_ID(23), {ts_builtin_sym_end}>> >>
    [] state = 63 ->
        << <<ACTIONS_ID(249), {aux_sym_frontmatter_token1}>> >>
    [] state = 64 ->
        << <<ACTIONS_ID(251), {anon_sym_GT_GT_GT}>> >>

\* ts_small_parse_table, state 65 (parser.c lines 2153-2155): groups of <<value, symbols>>.
ts_small_parse_table_65(state) ==
  CASE state = 65 ->
        << <<ACTIONS_ID(229), {anon_sym_DASH_DASH_RBRACE_RBRACE}>> >>

\* ts_small_parse_table, state 66 to state 73 (parser.c lines 2156-2179): groups of <<value, symbols>>.
ts_small_parse_table_66_73(state) ==
  CASE state = 66 ->
        << <<ACTIONS_ID(253), {anon_sym_RBRACE_RBRACE}>> >>
    [] state = 67 ->
        << <<ACTIONS_ID(255), {anon_sym_RBRACE_RBRACE}>> >>
    [] state = 68 ->
        << <<ACTIONS_ID(257), {ts_builtin_sym_end}>> >>
    [] state = 69 ->
        << <<ACTIONS_ID(259), {anon_sym_GT_GT_GT}>> >>
    [] state = 70 ->
        << <<ACTIONS_ID(261), {anon_sym_RBRACE_RBRACE}>> >>
    [] state = 71 ->
        << <<ACTIONS_ID(263), {sym_path}>> >>
    [] state = 72 ->
        << <<ACTIONS_ID(21), {ts_builtin_sym_end}>> >>
    [] state = 73 ->
        << <<ACTIONS_ID(265), {ts_builtin_sym_end}>> >>

\* ts_small_parse_table, state 74 to state 86 (parser.c lines 2180-2218): groups of <<value, symbols>>.
ts_small_parse_table_74_86(state) ==
  CASE state = 74 ->
        << <<ACTIONS_ID(267), {aux_sym_dotprompt_marker_token1}>> >>
    [] state = 75 ->
        << <<ACTIONS_ID(269), {aux_sym_handlebars_comment_token2}>> >>
    [] state = 76 ->
        << <<ACTIONS_ID(271), {anon_sym_RBRACE_RBRACE}>> >>
    [] state = 77 ->
        << <<ACTIONS_ID(273), {anon_sym_RBRACE_RBRACE}>> >>
    [] state = 78 ->
        << <<ACTIONS_ID(273), {anon_sym_DASH_DASH_RBRACE_RBRACE}>> >>
    [] state = 79 ->
        << <<ACTIONS_ID(275), {anon_sym_RBRACE_RBRACE}>> >>
    [] state = 80 ->
        << <<ACTIONS_ID(277), {aux_sym_handlebars_comment_token1}>> >>
    [] state = 81 ->
        << <<ACTIONS_ID(279), {anon_sym_RBRACE_RBRACE}>> >>
    [] state = 82 ->
        << <<ACTIONS_ID(281), {sym_path}>> >>
    [] state = 83 ->
        << <<ACTIONS_ID(283), {aux_sym_handlebars_comment_token1}>> >>
    [] state = 84 ->
        << <<ACTIONS_ID(285), {aux_sym_handlebars_comment_token2}>> >>
    [] state = 85 ->
        << <<ACTIONS_ID(287), {aux_sym_dotprompt_marker_token1}>> >>
    [] state = 86 ->
        << <<ACTIONS_ID(289), {sym_path}>> >>

\* The row of a parse state, whichever table holds it.
ParseTableRow(state) ==
  CASE state \in 0..1 -> ts_parse_table(state)
    [] state \in 2..3 -> ts_small_parse_table_2_3(state)
    [] state \in 4..6 -> ts_small_parse_table_4_6(state)
    [] state = 7 -> ts_small_parse_table_7(state)
    [] state \in 8..9 -> ts_small_parse_table_8_9(state)
    [] state \in 10..11 -> ts_small_parse_table_10_11(state)
    [] state \in 12..17 -> ts_small_parse_table_12_17(state)
    [] state \in 18..19 -> ts_small_parse_table_18_19(state)
    [] state \in 20..25 -> ts_small_parse_table_20_25(state)
    [] state \in 26..32 -> ts_small_parse_table_26_32(state)
    [] state \in 33..35 -> ts_small_parse_table_33_35(state)
    [] state \in 36..44 -> ts_small_parse_table_36_44(state)
    [] state \in 45..46 -> ts_small_parse_table_45_46(state)
    [] state \in 47..50 -> ts_small_parse_table_47_50(state)
    [] state \in 51..60 -> ts_small_parse_table_51_60(state)
    [] state = 61 -> ts_small_parse_table_61(state)
    [] state \in 62..64 -> ts_small_parse_table_62_64(state)
    [] state = 65 -> ts_small_parse_table_65(state)
    [] state \in 66..73 -> ts_small_parse_table_66_73(state)
    [] state \in 74..86 -> ts_small_parse_table_74_86(state)
\* ts_parse_actions, entries [0] to [41] (parser.c lines 2310-2331):
\* the actions that follow each entry header, in order.
ts_parse_actions_0_41(index) ==
  CASE index = 0 -> <<>>
    [] index = 1 -> <<RECOVER>>
    [] index = 3 -> <<REDUCE(sym_document, 0, 0, 0)>>
    [] index = 5 -> <<SHIFT(18)>>
    [] index = 7 -> <<SHIFT(53)>>
    [] index = 9 -> <<SHIFT(82)>>
    [] index = 11 -> <<SHIFT(46)>>
    [] index = 13 -> <<SHIFT(80)>>
    [] index = 15 -> <<SHIFT(75)>>
    [] index = 17 -> <<SHIFT(74)>>
    [] index = 19 -> <<SHIFT(10)>>
    [] index = 21 -> <<REDUCE(sym_document, 1, 0, 0)>>
    [] index = 23 -> <<REDUCE(sym_document, 2, 0, 0)>>
    [] index = 25 -> <<SHIFT(86)>>
    [] index = 27 -> <<SHIFT(45)>>
    [] index = 29 -> <<SHIFT(83)>>
    [] index = 31 -> <<SHIFT(84)>>
    [] index = 33 -> <<SHIFT(85)>>
    [] index = 35 -> <<SHIFT(9)>>
    [] index = 37 -> <<SHIFT(4)>>
    [] index = 39 -> <<SHIFT(61)>>
    [] index = 41 -> <<SHIFT(6)>>

\* ts_parse_actions [43]..[81] with every SHIFT_REPEAT written as SHIFT: the
\* entries of a repeat then hold a reduction and a shift.
ts_parse_actions_43_81_shift(index) ==
  CASE index = 43 -> <<REDUCE(aux_sym_template_body_repeat1, 2, 0, 0), SHIFT(82)>>
    [] index = 46 -> <<REDUCE(aux_sym_template_body_repeat1, 2, 0, 0)>>
    [] index = 48 -> <<REDUCE(aux_sym_template_body_repeat1, 2, 0, 0), SHIFT(45)>>
    [] index = 51 -> <<REDUCE(aux_sym_template_body_repeat1, 2, 0, 0), SHIFT(83)>>
    [] index = 54 -> <<REDUCE(aux_sym_template_body_repeat1, 2, 0, 0), SHIFT(84)>>
    [] index = 57 -> <<REDUCE(aux_sym_template_body_repeat1, 2, 0, 0), SHIFT(85)>>
    [] index = 60 -> <<REDUCE(aux_sym_template_body_repeat1, 2, 0, 0), SHIFT(9)>>
    [] index = 63 -> <<REDUCE(sym_template_body, 1, 0, 0)>>
    [] index = 65 -> <<SHIFT(11)>>
    [] index = 67 -> <<REDUCE(aux_sym_template_body_repeat1, 2, 0, 0)>>
    [] index = 69 -> <<REDUCE(aux_sym_template_body_repeat1, 2, 0, 0), SHIFT(46)>>
    [] index = 72 -> <<REDUCE(aux_sym_template_body_repeat1, 2, 0, 0), SHIFT(80)>>
    [] index = 75 -> <<REDUCE(aux_sym_template_body_repeat1, 2, 0, 0), SHIFT(75)>>
    [] index = 78 -> <<REDUCE(aux_sym_template_body_repeat1, 2, 0, 0), SHIFT(74)>>
    [] index = 81 -> <<REDUCE(aux_sym_template_body_repeat1, 2, 0, 0), SHIFT(11)>>

\* ts_parse_actions, entries [43] to [81] (parser.c lines 2332-2346):
\* the actions that follow each entry header, in order.
ts_parse_actions_43_81(index) ==
  CASE index = 43 -> <<REDUCE(aux_sym_template_body_repeat1, 2, 0, 0), SHIFT_REPEAT(82)>>
    [] index = 46 -> <<REDUCE(aux_sym_template_body_repeat1, 2, 0, 0)>>
    [] index = 48 -> <<REDUCE(aux_sym_template_body_repeat1, 2, 0, 0), SHIFT_REPEAT(45)>>
    [] index = 51 -> <<REDUCE(aux_sym_template_body_repeat1, 2, 0, 0), SHIFT_REPEAT(83)>>
    [] index = 54 -> <<REDUCE(aux_sym_template_body_repeat1, 2, 0, 0), SHIFT_REPEAT(84)>>
    [] index = 57 -> <<REDUCE(aux_sym_template_body_repeat1, 2, 0, 0), SHIFT_REPEAT(85)>>
    [] index = 60 -> <<REDUCE(aux_sym_template_body_repeat1, 2, 0, 0), SHIFT_REPEAT(9)>>
    [] index = 63 -> <<REDUCE(sym_template_body, 1, 0, 0)>>
    [] index = 65 -> <<SHIFT(11)>>
    [] index = 67 -> <<REDUCE(aux_sym_template_body_repeat1, 2, 0, 0)>>
    [] index = 69 -> <<REDUCE(aux_sym_template_body_repeat1, 2, 0, 0), SHIFT_REPEAT(46)>>
    [] index = 72 -> <<REDUCE(aux_sym_template_body_repeat1, 2, 0, 0), SHIFT_REPEAT(80)>>
    [] index = 75 -> <<REDUCE(aux_sym_template_body_repeat1, 2, 0, 0), SHIFT_REPEAT(75)>>
    [] index = 78 -> <<REDUCE(aux_sym_template_body_repeat1, 2, 0, 0), SHIFT_REPEAT(74)>>
    [] index = 81 -> <<REDUCE(aux_sym_template_body_repeat1, 2, 0, 0), SHIFT_REPEAT(11)>>

\* ts_parse_actions, entries [84] to [161] (parser.c lines 2347-2382):
\* the actions that follow each entry header, in order.
ts_parse_actions_84_161(index) ==
  CASE index = 84 -> <<SHIFT(36)>>
    [] index = 86 -> <<SHIFT(22)>>
    [] index = 88 -> <<SHIFT(20)>>
    [] index = 90 -> <<SHIFT(56)>>
    [] index = 92 -> <<SHIFT(54)>>
    [] index = 94 -> <<SHIFT(21)>>
    [] index = 96 -> <<SHIFT(25)>>
    [] index = 98 -> <<REDUCE(aux_sym_block_expression_repeat1, 2, 0, 0)>>
    [] index = 100 -> <<REDUCE(aux_sym_block_expression_repeat1, 2, 0, 0), SHIFT_REPEAT(22)>>
    [] index = 103 -> <<REDUCE(aux_sym_block_expression_repeat1, 2, 0, 0), SHIFT_REPEAT(20)>>
    [] index = 106 -> <<REDUCE(aux_sym_block_expression_repeat1, 2, 0, 0), SHIFT_REPEAT(56)>>
    [] index = 109 -> <<REDUCE(aux_sym_block_expression_repeat1, 2, 0, 0), SHIFT_REPEAT(54)>>
    [] index = 112 -> <<REDUCE(aux_sym_block_expression_repeat1, 2, 0, 0), SHIFT_REPEAT(21)>>
    [] index = 115 -> <<REDUCE(aux_sym_block_expression_repeat1, 2, 0, 0), SHIFT_REPEAT(25)>>
    [] index = 118 -> <<REDUCE(sym_variable_reference, 1, 0, 0)>>
    [] index = 120 -> <<REDUCE(sym_expression_content, 2, 0, 4)>>
    [] index = 122 -> <<SHIFT(32)>>
    [] index = 124 -> <<SHIFT(22)>>
    [] index = 126 -> <<SHIFT(24)>>
    [] index = 128 -> <<REDUCE(sym_license_header, 1, 0, 0)>>
    [] index = 130 -> <<SHIFT(19)>>
    [] index = 132 -> <<REDUCE(sym_license_header, 1, 0, 0)>>
    [] index = 134 -> <<REDUCE(aux_sym_license_header_repeat1, 2, 0, 0)>>
    [] index = 136 -> <<REDUCE(aux_sym_license_header_repeat1, 2, 0, 0), SHIFT_REPEAT(19)>>
    [] index = 139 -> <<REDUCE(aux_sym_license_header_repeat1, 2, 0, 0)>>
    [] index = 141 -> <<SHIFT(17)>>
    [] index = 143 -> <<REDUCE(sym_variable_reference, 1, 0, 0)>>
    [] index = 145 -> <<REDUCE(sym_argument, 1, 0, 0)>>
    [] index = 147 -> <<REDUCE(sym_argument, 1, 0, 0)>>
    [] index = 149 -> <<REDUCE(sym_string_literal, 3, 0, 0)>>
    [] index = 151 -> <<REDUCE(sym_string_literal, 3, 0, 0)>>
    [] index = 153 -> <<REDUCE(sym_hash_param, 3, 0, 7)>>
    [] index = 155 -> <<REDUCE(sym_hash_param, 3, 0, 7)>>
    [] index = 157 -> <<REDUCE(sym_boolean, 1, 0, 0)>>
    [] index = 159 -> <<REDUCE(sym_boolean, 1, 0, 0)>>
    [] index = 161 -> <<REDUCE(sym_handlebars_comment, 3, 0, 0)>>

\* ts_parse_actions [163]..[211] with the reduction of a block that has content
\* written with child count 2 instead of 3: the open tag stays on the stack.
ts_parse_actions_163_211_short_block(index) ==
  CASE index = 163 -> <<REDUCE(sym_close_block, 3, 0, 2)>>
    [] index = 165 -> <<REDUCE(sym_close_block, 3, 0, 2)>>
    [] index = 167 -> <<REDUCE(sym_frontmatter, 5, 0, 6)>>
    [] index = 169 -> <<REDUCE(sym_frontmatter, 5, 0, 6)>>
    [] index = 171 -> <<REDUCE(sym_handlebars_block, 2, 0, 0)>>
    [] index = 173 -> <<REDUCE(sym_handlebars_block, 2, 0, 0)>>
    [] index = 175 -> <<REDUCE(sym_handlebars_expression, 3, 0, 0)>>
    [] index = 177 -> <<REDUCE(sym_block_expression, 4, 0, 2)>>
    [] index = 179 -> <<SHIFT(49)>>
    [] index = 181 -> <<SHIFT(60)>>
    [] index = 183 -> <<SHIFT(59)>>
    [] index = 185 -> <<REDUCE(aux_sym_frontmatter_repeat1, 2, 0, 0), SHIFT_REPEAT(49)>>
    [] index = 188 -> <<REDUCE(aux_sym_frontmatter_repeat1, 2, 0, 0)>>
    [] index = 190 -> <<REDUCE(aux_sym_frontmatter_repeat1, 2, 0, 0), SHIFT_REPEAT(59)>>
    [] index = 193 -> <<SHIFT(55)>>
    [] index = 195 -> <<REDUCE(sym_block_expression, 3, 0, 2)>>
    [] index = 197 -> <<REDUCE(sym_dotprompt_marker, 3, 0, 0)>>
    [] index = 199 -> <<REDUCE(sym_dotprompt_marker, 3, 0, 0)>>
    [] index = 201 -> <<REDUCE(sym_frontmatter, 4, 0, 0)>>
    [] index = 203 -> <<REDUCE(sym_frontmatter, 4, 0, 0)>>
    [] index = 205 -> <<REDUCE(sym_handlebars_block, 2, 0, 0)>>
    [] index = 207 -> <<REDUCE(sym_handlebars_block, 2, 0, 0)>>
    [] index = 209 -> <<REDUCE(sym_handlebars_expression, 3, 0, 0)>>
    [] index = 211 -> <<REDUCE(sym_handlebars_comment, 3, 0, 0)>>

\* ts_parse_actions, entries [163] to [211] (parser.c lines 2383-2406):
\* the actions that follow each entry header, in order.
ts_parse_actions_163_211(index) ==
  CASE index = 163 -> <<REDUCE(sym_close_block, 3, 0, 2)>>
    [] index = 165 -> <<REDUCE(sym_close_block, 3, 0, 2)>>
    [] index = 167 -> <<REDUCE(sym_frontmatter, 5, 0, 6)>>
    [] index = 169 -> <<REDUCE(sym_frontmatter, 5, 0, 6)>>
    [] index = 171 -> <<REDUCE(sym_handlebars_block, 2, 0, 0)>>
    [] index = 173 -> <<REDUCE(sym_handlebars_block, 2, 0, 0)>>
    [] index = 175 -> <<REDUCE(sym_handlebars_expression, 3, 0, 0)>>
    [] index = 177 -> <<REDUCE(sym_block_expression, 4, 0, 2)>>
    [] index = 179 -> <<SHIFT(49)>>
    [] index = 181 -> <<SHIFT(60)>>
    [] index = 183 -> <<SHIFT(59)>>
    [] index = 185 -> <<REDUCE(aux_sym_frontmatter_repeat1, 2, 0, 0), SHIFT_REPEAT(49)>>
    [] index = 188 -> <<REDUCE(aux_sym_frontmatter_repeat1, 2, 0, 0)>>
    [] index = 190 -> <<REDUCE(aux_sym_frontmatter_repeat1, 2, 0, 0), SHIFT_REPEAT(59)>>
    [] index = 193 -> <<SHIFT(55)>>
    [] index = 195 -> <<REDUCE(sym_block_expression, 3, 0, 2)>>
    [] index = 197 -> <<REDUCE(sym_dotprompt_marker, 3, 0, 0)>>
    [] index = 199 -> <<REDUCE(sym_dotprompt_marker, 3, 0, 0)>>
    [] index = 201 -> <<REDUCE(sym_frontmatter, 4, 0, 0)>>
    [] index = 203 -> <<REDUCE(sym_frontmatter, 4, 0, 0)>>
    [] index = 205 -> <<REDUCE(sym_handlebars_block, 3, 0, 0)>>
    [] index = 207 -> <<REDUCE(sym_handlebars_block, 3, 0, 0)>>
    [] index = 209 -> <<REDUCE(sym_handlebars_expression, 3, 0, 0)>>
    [] index = 211 -> <<REDUCE(sym_handlebars_comment, 3, 0, 0)>>

\* ts_parse_actions, entries [213] to [289] (parser.c lines 2407-2445):
\* the actions that follow each entry header, in order.
ts_parse_actions_213_289(index) ==
  CASE index = 213 -> <<SHIFT(71)>>
    [] index = 215 -> <<SHIFT(70)>>
    [] index = 217 -> <<SHIFT(14)>>
    [] index = 219 -> <<REDUCE(sym_yaml_line, 3, 0, 5)>>
    [] index = 221 -> <<REDUCE(sym_yaml_line, 4, 0, 8)>>
    [] index = 223 -> <<REDUCE(aux_sym_frontmatter_repeat1, 1, 0, 0)>>
    [] index = 225 -> <<SHIFT(47)>>
    [] index = 227 -> <<SHIFT(63)>>
    [] index = 229 -> <<SHIFT(44)>>
    [] index = 231 -> <<SHIFT(27)>>
    [] index = 233 -> <<SHIFT(33)>>
    [] index = 235 -> <<SHIFT(58)>>
    [] index = 237 -> <<SHIFT(28)>>
    [] index = 239 -> <<SHIFT(57)>>
    [] index = 241 -> <<SHIFT(23)>>
    [] index = 243 -> <<SHIFT(50)>>
    [] index = 245 -> <<SHIFT(38)>>
    [] index = 247 -> <<SHIFT(52)>>
    [] index = 249 -> <<SHIFT(48)>>
    [] index = 251 -> <<SHIFT(37)>>
    [] index = 253 -> <<REDUCE(sym_expression_content, 2, 0, 3)>>
    [] index = 255 -> <<REDUCE(sym_expression_content, 1, 0, 1)>>
    [] index = 257 -> <<REDUCE(sym_document, 3, 0, 0)>>
    [] index = 259 -> <<SHIFT(40)>>
    [] index = 261 -> <<REDUCE(sym_expression_content, 1, 0, 0)>>
    [] index = 263 -> <<SHIFT(66)>>
    [] index = 265 -> <<ACCEPT_INPUT>>
    [] index = 267 -> <<SHIFT(64)>>
    [] index = 269 -> <<SHIFT(65)>>
    [] index = 271 -> <<SHIFT(31)>>
    [] index = 273 -> <<SHIFT(26)>>
    [] index = 275 -> <<SHIFT(43)>>
    [] index = 277 -> <<SHIFT(51)>>
    [] index = 279 -> <<SHIFT(42)>>
    [] index = 281 -> <<SHIFT(12)>>
    [] index = 283 -> <<SHIFT(77)>>
    [] index = 285 -> <<SHIFT(78)>>
    [] index = 287 -> <<SHIFT(69)>>
    [] index = 289 -> <<SHIFT(81)>>

\* ts_parse_actions with close_block reduced under production 0 instead of 2:
\* the close tag's path is no longer its name field.
ts_parse_actions_close_unnamed(index) ==
  IF index \in {163, 165} THEN <<REDUCE(sym_close_block, 3, 0, 0)>>
  ELSE CASE index \in 0..41 -> ts_parse_actions_0_41(index)
         [] index \in 43..81 -> ts_parse_actions_43_81(index)
         [] index \in 84..161 -> ts_parse_actions_84_161(index)
         [] index \in 163..211 -> ts_parse_actions_163_211(index)
         [] index \in 213..289 -> ts_parse_actions_213_289(index)

\* ts_parse_actions with the empty reduction [3] producing a template_body
\* instead of the document.
ts_parse_actions_empty_body(index) ==
  IF index \in {3} THEN <<REDUCE(sym_template_body, 0, 0, 0)>>
  ELSE CASE index \in 0..41 -> ts_parse_actions_0_41(index)
         [] index \in 43..81 -> ts_parse_actions_43_81(index)
         [] index \in 84..161 -> ts_parse_actions_84_161(index)
         [] index \in 163..211 -> ts_parse_actions_163_211(index)
         [] index \in 213..289 -> ts_parse_actions_213_289(index)

\* ts_parse_actions with the reduction of a frontmatter without lines, [201] and
\* [203], producing a template_body.
ts_parse_actions_frontmatter_as_body(index) ==
  IF index \in {201, 203} THEN <<REDUCE(sym_template_body, 4, 0, 0)>>
  ELSE CASE index \in 0..41 -> ts_parse_actions_0_41(index)
         [] index \in 43..81 -> ts_parse_actions_43_81(index)
         [] index \in 84..161 -> ts_parse_actions_84_161(index)
         [] index \in 163..211 -> ts_parse_actions_163_211(index)
         [] index \in 213..289 -> ts_parse_actions_213_289(index)

\* ts_parse_actions with the reduction of a document of two sections, [23],
\* written with child count 1.
ts_parse_actions_document_short(index) ==
  IF index \in {23} THEN <<REDUCE(sym_document, 1, 0, 0)>>
  ELSE CASE index \in 0..41 -> ts_parse_actions_0_41(index)
         [] index \in 43..81 -> ts_parse_actions_43_81(index)
         [] index \in 84..161 -> ts_parse_actions_84_161(index)
         [] index \in 163..211 -> ts_parse_actions_163_211(index)
         [] index \in 213..289 -> ts_parse_actions_213_289(index)

\* ts_parse_actions with the reduction of a frontmatter that has content,
\* [167] and [169], written with child count 3.
ts_parse_actions_frontmatter_short(index) ==
  IF index \in {167, 169} THEN <<REDUCE(sym_frontmatter, 3, 0, 6)>>
  ELSE CASE index \in 0..41 -> ts_parse_actions_0_41(index)
         [] index \in 43..81 -> ts_parse_actions_43_81(index)
         [] index \in 84..161 -> ts_parse_actions_84_161(index)
         [] index \in 163..211 -> ts_parse_actions_163_211(index)
         [] index \in 213..289 -> ts_parse_actions_213_289(index)

\* ts_parse_actions with the action on = after a path in argument position,
\* [141], written as the reduction of a variable_reference.
ts_parse_actions_equals_reduce(index) ==
  IF index \in {141} THEN <<REDUCE(sym_variable_reference, 1, 0, 0)>>
  ELSE CASE index \in 0..41 -> ts_parse_actions_0_41(index)
         [] index \in 43..81 -> ts_parse_actions_43_81(index)
         [] index \in 84..161 -> ts_parse_actions_84_161(index)
         [] index \in 163..211 -> ts_parse_actions_163_211(index)
         [] index \in 213..289 -> ts_parse_actions_213_289(index)

\* ts_parse_actions with the action on else in the head of an expression,
\* [215], left out.
ts_parse_actions_no_else(index) ==
  IF index \in {215} THEN <<>>
  ELSE CASE index \in 0..41 -> ts_parse_actions_0_41(index)
         [] index \in 43..81 -> ts_parse_actions_43_81(index)
         [] index \in 84..161 -> ts_parse_actions_84_161(index)
         [] index \in 163..211 -> ts_parse_actions_163_211(index)
         [] index \in 213..289 -> ts_parse_actions_213_289(index)

\* ts_parse_actions with the action on > in the head of an expression, [213],
\* written as the shift of a helper name.
ts_parse_actions_partial_as_helper(index) ==
  IF index \in {213} THEN <<SHIFT(14)>>
  ELSE CASE index \in 0..41 -> ts_parse_actions_0_41(index)
         [] index \in 43..81 -> ts_parse_actions_43_81(index)
         [] index \in 84..161 -> ts_parse_actions_84_161(index)
         [] index \in 163..211 -> ts_parse_actions_163_211(index)
         [] index \in 213..289 -> ts_parse_actions_213_289(index)

ts_parse_actions(index) ==
  CASE index \in 0..41 -> ts_parse_actions_0_41(index)
    [] index \in 43..81 -> ts_parse_actions_43_81(index)
    [] index \in 84..161 -> ts_parse_actions_84_161(index)
    [] index \in 163..211 -> ts_parse_actions_163_211(index)
    [] index \in 213..289 -> ts_parse_actions_213_289(index)

----------------------------------------------------------------------------
\* The lexer run: ts_lex is entered in the lex state of the parse state on top
\* of the stack and loops, one character per pass, until END_STATE.

\* lexer->lookahead and lexer->eof(lexer) at the cursor.
Lookahead == IF position < Len(input) THEN input[position + 1] ELSE NUL
Eof == position >= Len(input)

\* The pass of ts_lex at the cursor.
LexPass == ts_lex(lex_state, Lookahead, Eof)

\* ACCEPT_TOKEN(symbol): result = true, result_symbol = symbol, mark_end().
AcceptToken(p) ==
  /\ result' = (result \/ p.accept # NoToken)
  /\ result_symbol' = IF p.accept # NoToken THEN p.accept ELSE result_symbol
  /\ token_end' = IF p.accept # NoToken THEN position ELSE token_end

\* lexer->advance: at end of input nothing is consumed.
PositionAfterAdvance == IF Eof THEN position ELSE position + 1

\* A pass that ends in ADVANCE(n).
LexAdvance ==
  /\ pc = "lex"
  /\ LET p == LexPass
     IN  /\ p.next.op = "advance"
         /\ AcceptToken(p)
         /\ position' = PositionAfterAdvance
         /\ lex_state' = p.next.state
  /\ UNCHANGED <<input, pc, token_start, token, tokens, stack, pass, first_tree, other>>

\* A pass that ends in SKIP(n): the consumed character is padding, the token
\* starts after it.
LexSkip ==
  /\ pc = "lex"
  /\ LET p == LexPass
     IN  /\ p.next.op = "skip"
         /\ AcceptToken(p)
         /\ position' = PositionAfterAdvance
         /\ token_start' = PositionAfterAdvance
         /\ lex_state' = p.next.state
  /\ UNCHANGED <<input, pc, token, tokens, stack, pass, first_tree, other>>

\* The token ts_lex returns: it ends at the marked end, and the cursor goes
\* back there (characters read past the marked end were only looked at).
\* A token whose marked end lies before its start is empty at its end.
LexedToken(symbol, start, end) ==
  [symbol |-> symbol, start |-> IF end < start THEN end ELSE start, end |-> end]

\* A pass that ends in END_STATE: ts_lex returns `result`.  With a token the
\* parser takes over; without one the input does not lex in this state.
LexEnd ==
  /\ pc = "lex"
  /\ LET p == LexPass
     IN  /\ p.next.op = "end"
         /\ AcceptToken(p)
         /\ IF result'
              THEN /\ token' = LexedToken(result_symbol', token_start, token_end')
                   /\ tokens' = Append(tokens, token')
                   /\ position' = token_end'
                   /\ pc' = "parse"
              ELSE /\ pc' = "lex_error"
                   /\ UNCHANGED <<token, tokens, position>>
  /\ UNCHANGED <<input, lex_state, token_start, stack, pass, first_tree, other>>

----------------------------------------------------------------------------
\* The parser loop.

\* The table cell of (state, symbol): the value of the first group of the
\* state's row that lists the symbol, 0 when none does.
ts_language_lookup(state, symbol) ==
  LET row == ParseTableRow(state)
      hits == {i \in 1..Len(row) : symbol \in row[i][2]}
  IN  IF hits = {} THEN 0
      ELSE row[CHOOSE i \in hits : \A j \in hits : i <= j][1]

\* The actions of (state, lookahead symbol).
ts_language_actions(state, symbol) == ts_parse_actions(ts_language_lookup(state, symbol))

TopState == stack[Len(stack)].state

\* The actions the parser can take on the lookahead token: the entry's actions
\* without the repetition shifts, which only mark a repeat for incremental reuse.
ApplicableActions ==
  LET acts == ts_language_actions(TopState, token.symbol)
  IN  {acts[i] : i \in {j \in 1..Len(acts) : ~(acts[j].type = "shift" /\ acts[j].repetition)}}

\* Tree nodes.
NoNode == [symbol |-> 0 - 1, production_id |-> 0, start |-> 0, end |-> 0, children |-> <<>>]
Leaf(t) == [symbol |-> t.symbol, production_id |-> 0, start |-> t.start, end |-> t.end,
            children |-> <<>>]

\* The lexer is entered afresh for the parse state s.
StartLex(s) ==
  /\ lex_state' = ts_lex_modes(s)
  /\ result' = FALSE
  /\ result_symbol' = NoToken
  /\ token_start' = position
  /\ token_end' = position

\* SHIFT(n): push the lookahead token with state n, then lex the next token in
\* n's lex mode.
Shift ==
  /\ pc = "parse"
  /\ \E a \in ApplicableActions :
       /\ a.type = "shift"
       /\ stack' = Append(stack, [state |-> a.state, node |-> Leaf(token)])
       /\ StartLex(a.state)
  /\ pc' = "lex"
  /\ UNCHANGED <<input, position, token, tokens, pass, first_tree, other>>

\* REDUCE(symbol, child_count, _, production_id): pop child_count entries, make
\* them the children of a new node and push it with the goto state of the
\* uncovered state; the lookahead token is kept.
Reduce ==
  /\ pc = "parse"
  /\ \E a \in ApplicableActions :
       /\ a.type = "reduce"
       /\ LET n    == a.child_count
              base == SubSeq(stack, 1, Len(stack) - n)
              kids == [k \in 1..n |-> stack[Len(stack) - n + k].node]
              node == [symbol |-> a.symbol, production_id |-> a.production_id,
                       start |-> IF n = 0 THEN token.start ELSE kids[1].start,
                       end |-> IF n = 0 THEN token.start ELSE kids[n].end,
                       children |-> kids]
          IN  stack' = Append(base, [state |-> ts_language_lookup(base[Len(base)].state, a.symbol),
                                     node |-> node])
  /\ UNCHANGED <<input, pc, position, lex_state, result, result_symbol, token_start,
                 token_end, token, tokens, pass, first_tree, other>>

\* ACCEPT_INPUT(): the node on top of the stack is the tree.
Accept ==
  /\ pc = "parse"
  /\ \E a \in ApplicableActions : a.type = "accept"
  /\ pc' = "accepted"
  /\ UNCHANGED <<input, position, lex_state, result, result_symbol, token_start,
                 token_end, token, tokens, stack, pass, first_tree, other>>

\* No action for the lookahead token in the state on top (or only RECOVER,
\* the entry of the error state): a syntax error.
SyntaxError ==
  /\ pc = "parse"
  /\ \A a \in ApplicableActions : a.type = "recover"
  /\ pc' = "syntax_error"
  /\ UNCHANGED <<input, position, lex_state, result, result_symbol, token_start,
                 token_end, token, tokens, stack, pass, first_tree, other>>

ParseTree == stack[Len(stack)].node

\* ts_field_map with the value of production 7 (hash_param) written at child
\* index 1, the = sign.
ts_field_map_equals(production_id) ==
  CASE production_id = 2 -> {<<field_name, 1>>}
    [] production_id = 5 -> {<<field_key, 0>>}
    [] production_id = 7 -> {<<field_key, 0>>, <<field_value, 1>>}
    [] production_id = 8 -> {<<field_key, 0>>, <<field_value, 2>>}
    [] OTHER -> {}

\* ts_field_map_slices and ts_field_map_entries: the fields of a production,
\* as <<field, child_index>> pairs (child_index counts from 0).
ts_field_map(production_id) ==
  CASE production_id = 2 -> {<<field_name, 1>>}
    [] production_id = 5 -> {<<field_key, 0>>}
    [] production_id = 7 -> {<<field_key, 0>>, <<field_value, 2>>}
    [] production_id = 8 -> {<<field_key, 0>>, <<field_value, 2>>}
    [] OTHER -> {}

\* ts_alias_sequences: the alias of the child at child_index (from 0) in a
\* production, 0 when it has none.
ts_alias_sequences(production_id, child_index) ==
  CASE production_id = 1 /\ child_index = 0 -> sym_variable_reference
    [] production_id = 2 /\ child_index = 1 -> alias_sym_block_name
    [] production_id = 3 /\ child_index = 1 -> alias_sym_partial_reference
    [] production_id = 4 /\ child_index = 0 -> alias_sym_helper_name
    [] production_id = 6 /\ child_index = 2 -> alias_sym_yaml_content
    [] production_id = 7 /\ child_index = 0 -> alias_sym_key
    [] OTHER -> 0

\* ts_symbol_metadata[symbol].visible: the symbols that are hidden.
HiddenSymbols ==
  { ts_builtin_sym_end, aux_sym_frontmatter_token1, aux_sym__yaml_content_token1,
    aux_sym_handlebars_comment_token1, aux_sym_handlebars_comment_token2,
    aux_sym_variable_reference_token1, aux_sym_string_literal_token1,
    aux_sym_string_literal_token2, sym__yaml_content, sym__content,
    aux_sym_license_header_repeat1, aux_sym_frontmatter_repeat1,
    aux_sym_template_body_repeat1, aux_sym_block_expression_repeat1 }

----------------------------------------------------------------------------
\* Reading the tree.

RECURSIVE Flatten(_)
Flatten(ss) == IF ss = <<>> THEN <<>> ELSE Head(ss) \o Flatten(Tail(ss))

\* The source text a node spans.
Text(node) == SubSeq(input, node.start + 1, node.end)

\* The children of a node that carry the field.
ChildrenByField(node, field) ==
  {node.children[e[2] + 1] : e \in {f \in ts_field_map(node.production_id) : f[1] = field}}

\* Every node of a subtree, and of the trees on the stack.
RECURSIVE NodesOf(_)
NodesOf(node) ==
  {node} \cup UNION {NodesOf(node.children[i]) : i \in 1..Len(node.children)}
StackNodes == UNION {NodesOf(stack[i].node) : i \in 2..Len(stack)}

\* The leaf tokens of a subtree, in source order.
RECURSIVE LeavesOf(_)
LeavesOf(node) ==
  IF node.children = <<>> THEN <<node>>
  ELSE Flatten([i \in 1..Len(node.children) |-> LeavesOf(node.children[i])])

\* ts_symbol_metadata[symbol]: the symbols that are visible and named.
NamedSymbols ==
  { sym_header_comment, sym_frontmatter_delimiter, aux_sym_yaml_line_token1,
    aux_sym_yaml_line_token2, sym_path, sym_number, aux_sym_dotprompt_marker_token1,
    sym_text, sym_document, sym_license_header, sym_frontmatter, sym_yaml_line,
    sym_template_body, sym_handlebars_block, sym_block_expression, sym_close_block,
    sym_handlebars_expression, sym_expression_content, sym_handlebars_comment,
    sym_argument, sym_hash_param, sym_variable_reference, sym_string_literal,
    sym_boolean, sym_dotprompt_marker, alias_sym_block_name, alias_sym_helper_name,
    alias_sym_key, alias_sym_partial_reference, alias_sym_yaml_content }

\* The children of a node as the public tree shows them: a child with an alias
\* in the node's production shows as the alias, any other hidden child is
\* replaced by its own visible children.
RECURSIVE VisibleChildren(_)
VisibleChildren(node) ==
  Flatten([i \in 1..Len(node.children) |->
             LET child == node.children[i]
                 alias == ts_alias_sequences(node.production_id, i - 1)
             IN  IF alias # 0 THEN <<[child EXCEPT !.symbol = alias]>>
                 ELSE IF child.symbol \in HiddenSymbols THEN VisibleChildren(child)
                 ELSE <<child>>])

\* The named children of a node, and their kinds.
IsNamed(node) == node.symbol \in NamedSymbols
NamedChildren(node) == SelectSeq(VisibleChildren(node), IsNamed)
Kinds(nodes) == [i \in 1..Len(nodes) |-> nodes[i].symbol]

Done == pc \in {"accepted", "lex_error", "syntax_error"}
Failed == pc \in {"lex_error", "syntax_error"}

----------------------------------------------------------------------------
\* Source texts.

\* The texts made of at most n of the given pieces.
TextsOf(pieces, n) == {Flatten(s) : s \in UNION {[1..k -> pieces] : k \in 0..n}}

\* The state before the first token is lexed: the start state 1 on the stack.
Begin(text) ==
  /\ input = text
  /\ pc = "lex"
  /\ position = 0
  /\ lex_state = ts_lex_modes(1)
  /\ result = FALSE
  /\ result_symbol = NoToken
  /\ token_start = 0
  /\ token_end = 0
  /\ token = [symbol |-> NoToken, start |-> 0, end |-> 0]
  /\ tokens = <<>>
  /\ stack = <<[state |-> 1, node |-> NoNode]>>
  /\ pass = 1
  /\ first_tree = NoNode

\* The state of one parse: what a parser object and its lexer hold.
Context ==
  [input |-> input, pc |-> pc, position |-> position, lex_state |-> lex_state,
   result |-> result, result_symbol |-> result_symbol, token_start |-> token_start,
   token_end |-> token_end, token |-> token, tokens |-> tokens, stack |-> stack]

\* The state of a parse that has been set up on a text and has not run yet.
Begun(text) ==
  [input |-> text, pc |-> "lex", position |-> 0, lex_state |-> ts_lex_modes(1),
   result |-> FALSE, result_symbol |-> NoToken, token_start |-> 0, token_end |-> 0,
   token |-> [symbol |-> NoToken, start |-> 0, end |-> 0], tokens |-> <<>>,
   stack |-> <<[state |-> 1, node |-> NoNode]>>]

\* The outcome of a parse: how it ended, its token stream and its stack, whose
\* top is the tree.
Outcome(parse) == [pc |-> parse.pc, tokens |-> parse.tokens, stack |-> parse.stack]
NoOutcome == [pc |-> "none", tokens |-> <<>>, stack |-> <<>>]

\* No second parse.
NoOther == [parse |-> [Begun(<<>>) EXCEPT !.pc = "none"], id |-> 0, alone |-> NoOutcome]

\* One parse of the text, alone.
Start(text) ==
  /\ Begin(text)
  /\ other = NoOther

Next == LexAdvance \/ LexSkip \/ LexEnd \/ Shift \/ Reduce \/ Accept \/ SyntaxError

----------------------------------------------------------------------------
\* Block texts: open tags, close tags (named, empty and unfinished), text and
\* blanks.

MaxBlockPieces == 4
BlockPieces ==
  { <<"{", "{", "#", "x", "}", "}">>, <<"{", "{", "#", "y", "}", "}">>,
    <<"{", "{", "/", "x", "}", "}">>, <<"{", "{", "/", "y", "}", "}">>,
    <<"{", "{", "/", "}", "}">>, <<"{", "{", "/", " ", "x", "}", "}">>, <<"{", "{", "/">>,
    <<"a">> }
\* Blocks nested up to a depth: a text, or a text wrapped in an open tag and
\* the close tag of the same name.
MaxNesting == 3
RECURSIVE NestedTexts(_)
NestedTexts(depth) ==
  IF depth = 0 THEN {<<>>, <<"a">>}
  ELSE NestedTexts(depth - 1) \cup
       { <<"{", "{", "#", name, "}", "}">> \o text \o <<"{", "{", "/", name, "}", "}">> :
           name \in {"x", "y"}, text \in NestedTexts(depth - 1) }
BlockTexts == TextsOf(BlockPieces, MaxBlockPieces) \cup NestedTexts(MaxNesting)
InitBlocks == \E text \in BlockTexts : Start(text)
SpecBlocks == InitBlocks /\ [][Next]_vars

\* The helper name of a block's open tag and the name of its close tag.
OpenName(block) ==
  {Text(n) : n \in ChildrenByField(block.children[1], field_name)}
CloseName(block) ==
  {Text(n) : n \in ChildrenByField(block.children[Len(block.children)], field_name)}
Blocks == {n \in StackNodes : n.symbol = sym_handlebars_block}

\* C1: a named close tag that differs from the name of the innermost open
\* block is a parse error; no handlebars_block is ever reduced from an open tag
\* and a close tag with different names.
C1_MismatchIsError == \A b \in Blocks : OpenName(b) = CloseName(b)

\* C2: an open tag, a well-formed body and the empty close tag {{/}} parse to
\* one handlebars_block with no error, whatever the helper name.
OpenTags == {<<"{", "{", "#", "x", "}", "}">>, <<"{", "{", "#", "y", "}", "}">>}
EmptyClose == <<"{", "{", "/", "}", "}">>
EmptyCloseTexts ==
  {open \o body \o EmptyClose : open \in OpenTags, body \in {<<>>, <<"a">>, <<"a", "a">>}}
C2_EmptyCloseAccepted ==
  input \in EmptyCloseTexts =>
    /\ ~Failed
    /\ pc = "accepted" => Cardinality(Blocks) = 1

----------------------------------------------------------------------------
\* Comment texts: the two comment openers, their closers, content, and an
\* expression to stand before or after a comment.

MaxCommentPieces == 3
CommentPieces ==
  { <<"{", "{", "!", "-", "-">>, <<"-", "-", "}", "}">>, <<" ", "n", "o", "t", "e", " ">>,
    <<"{", "{", "!">>, <<"}", "}">>, <<"-">>, <<"a">>, <<"{", "{", " ", "a", "}", "}">>,
    <<"}">>, <<"a", "}", " ", "b">> }
CommentTexts == TextsOf(CommentPieces, MaxCommentPieces)
InitComments == \E text \in CommentTexts : Start(text)
SpecComments == InitComments /\ [][Next]_vars

\* The text of a delivered token.
TokenText(t) == SubSeq(input, t.start + 1, t.end)
\* pat occurs in text.
Contains(text, pat) ==
  \E i \in 0..(Len(text) - Len(pat)) : SubSeq(text, i + 1, i + Len(pat)) = pat

NoteComment ==
  <<"{", "{", "!", "-", "-", " ", "n", "o", "t", "e", " ", "-", "-", "}", "}">>

\* C3: a {{!-- comment is closed by the first following --}}: its content token
\* never includes the closer (nor anything after it), and {{!-- note --}} is
\* lexed as {{!--, one content token, --}}, end, and parsed with no error to
\* one handlebars_comment that spans the input.
C3_DashCommentClosed ==
  /\ \A i \in 1..Len(tokens) :
       tokens[i].symbol = aux_sym_handlebars_comment_token2 =>
         ~Contains(TokenText(tokens[i]), <<"-", "-", "}", "}">>)
  /\ (input = NoteComment /\ Done) =>
       /\ pc = "accepted"
       /\ [i \in 1..Len(tokens) |-> tokens[i].symbol] =
            << anon_sym_LBRACE_LBRACE_BANG_DASH_DASH, aux_sym_handlebars_comment_token2,
               anon_sym_DASH_DASH_RBRACE_RBRACE, ts_builtin_sym_end >>
       /\ \E c \in StackNodes :
            c.symbol = sym_handlebars_comment /\ c.start = 0 /\ c.end = Len(input)

----------------------------------------------------------------------------
\* Documents: the scenarios of the design and texts for the constructs of the
\* grammar.

Scenario1 ==
  << "#", " ", "l", "i", "c", "e", "n", "s", "e", "\n", "-", "-", "-", "\n", "n", "a",
     "m", "e", ":", " ", "x", "\n", "-", "-", "-", "\n", "H", "e", "l", "l", "o", " ",
     "{", "{", "n", "a", "m", "e", "}", "}", "!" >>
Scenario2 ==
  << "{", "{", "#", "i", "f", " ", "c", "o", "n", "d", "}", "}", "y", "e", "s", "{", "{",
     "e", "l", "s", "e", "}", "}", "n", "o", "{", "{", "/", "i", "f", "}", "}" >>
Scenario3 ==
  << "{", "{", "#", "i", "f", " ", "c", "o", "n", "d", "}", "}", "u", "n", "c", "l", "o",
     "s", "e", "d" >>
Scenario4 ==
  << "{", "{", "!", "-", "-", " ", "n", "o", "t", "e", " ", "-", "-", "}", "}" >>
Scenario5 ==
  << "<", "<", "<", "d", "o", "t", "p", "r", "o", "m", "p", "t", ":", " ", "r", "a", "w",
     " ", "s", "t", "u", "f", "f", " ", ">", ">", ">" >>
EmptyFrontmatter ==
  << "-", "-", "-", "\n", "-", "-", "-", "\n" >>
SpacedExpression ==
  << "{", "{", " ", "n", "a", "m", "e", " ", "}", "}" >>
FullDocument ==
  << "#", " ", "a", "\n", "#", " ", "b", "\n", "-", "-", "-", "\n", "k", ":", " ", "v",
     "\n", "j", ":", "\n", "-", "-", "-", "\n", "<", "<", "<", "d", "o", "t", "p", "r",
     "o", "m", "p", "t", ":", "m", ">", ">", ">", "{", "{", "!", "c", "}", "}" >>
HelperCall ==
  << "{", "{", "f", " ", "'", "a", "'", " ", "1", ".", "5", " ", "f", "a", "l", "s", "e",
     " ", "@", "i", " ", "a", ".", "b", "}", "}" >>
EachBlock ==
  << "{", "{", "#", "e", "a", "c", "h", " ", "i", "t", "e", "m", "s", " ", "k", "=",
     "\"", "v", "\"", " ", "t", "=", "t", "r", "u", "e", "}", "}", "{", "{", "t", "h",
     "i", "s", "}", "}", "{", "{", "e", "l", "s", "e", "}", "}", "{", "{", "/", "e", "a",
     "c", "h", "}", "}" >>
Partial ==
  << "a", " ", "{", "{", ">", " ", "p", "a", "r", "t", "}", "}", " ", "b" >>
BlockWithArgument ==
  << "{", "{", "#", "x", " ", "y", "}", "}", "{", "{", "/", "x", "}", "}" >>
UnclosedComment ==
  << "{", "{", "#", "x", "}", "}", "{", "{", "!", "a" >>
FrontmatterTwice ==
  << "-", "-", "-", "\n", "-", "-", "-", "\n", "-", "-", "-", "\n", "-", "-", "-", "\n" >>
BodyThenFrontmatter ==
  << "x", "\n", "-", "-", "-", "\n", "-", "-", "-", "\n" >>
HeaderAfterFrontmatter ==
  << "#", " ", "a", "\n", "-", "-", "-", "\n", "-", "-", "-", "\n", "#", " ", "b" >>
MarkerWithAngle ==
  << "<", "<", "<", "d", "o", "t", "p", "r", "o", "m", "p", "t", ":", "a", ">", "b", ">",
     ">", ">" >>
MarkerWithBraces ==
  << "<", "<", "<", "d", "o", "t", "p", "r", "o", "m", "p", "t", ":", "{", "{", "x", "}",
     "}", ">", ">", ">" >>
MarkerInMarker ==
  << "<", "<", "<", "d", "o", "t", "p", "r", "o", "m", "p", "t", ":", "<", "<", "<", "d",
     "o", "t", "p", "r", "o", "m", "p", "t", ":", ">", ">", ">" >>
DelimiterMidLine ==
  << "-", "-", "-", "\n", "-", "-", "-", "x" >>
DelimiterOfFour ==
  << "-", "-", "-", "\n", "-", "-", "-", "-" >>
ClosedAtEnd ==
  << "-", "-", "-", "\n", "k", ":", " ", "v", "\n", "-", "-", "-" >>
EmptyClosedAtEnd ==
  << "-", "-", "-", "\n", "-", "-", "-" >>
KeySpaceColon ==
  << "-", "-", "-", "\n", "k", " ", ":", " ", "v", "\n", "-", "-", "-", "\n" >>
KeyBreakColon ==
  << "-", "-", "-", "\n", "k", "\n", ":", " ", "v", "\n", "-", "-", "-", "\n" >>
KeyNoColon ==
  << "-", "-", "-", "\n", "k", "\n", "-", "-", "-", "\n" >>
KeyWithDashes ==
  << "-", "-", "-", "\n", "a", "-", "b", "_", "1", ":", " ", "v", "\n", "-", "-", "-",
     "\n" >>
ValueWithBlanks ==
  << "-", "-", "-", "\n", "k", ":", " ", " ", "v", " ", "\n", "-", "-", "-", "\n" >>
ValueNoBlank ==
  << "-", "-", "-", "\n", "k", ":", "v", "\n", "-", "-", "-", "\n" >>
IndentedYaml ==
  << "-", "-", "-", "\n", "a", ":", "\n", " ", " ", "b", ":", " ", "c", "\n", "-", "-",
     "-", "\n" >>
EmptyValueYaml ==
  << "-", "-", "-", "\n", "a", ":", "\n", "\n", "b", ":", " ", "c", "\n", "-", "-", "-",
     "\n" >>
ExpressionThenDashes ==
  << "{", "{", "x", "}", "}", "-", "-", "-", "\n", "-", "-", "-", "\n" >>
BlockWithDashes ==
  << "{", "{", "#", "x", "}", "}", "-", "-", "-", "\n", "-", "-", "-", "\n", "{", "{",
     "/", "x", "}", "}" >>
BlankThenFrontmatter ==
  << " ", "-", "-", "-", "\n", "-", "-", "-", "\n" >>
HeaderTextDashes ==
  << "#", " ", "a", "\n", "x", "\n", "-", "-", "-", "\n", "-", "-", "-", "\n" >>
TextThenHash ==
  << "x", "\n", "#", " ", "a" >>
BlockWithHash ==
  << "{", "{", "#", "x", "}", "}", "#", " ", "a", "{", "{", "/", "x", "}", "}" >>
TwoHeaderLines ==
  << "#", " ", "a", "\n", "#", " ", "b", "\n", "x" >>
HeaderTextHash ==
  << "#", " ", "a", "\n", "x", "\n", "#", " ", "b" >>
LoneBrace ==
  << "a", "{", "b" >>
MarkerPrefix ==
  << "<", "<", "<", "d", "o", "t" >>
BraceThenExpression ==
  << "{", "x", "{", "{", "y", "}", "}" >>
BlockWithLoneTriggers ==
  << "{", "{", "#", "x", "}", "}", "{", "a", "<", "b", "{", "{", "/", "x", "}", "}" >>
AngleThenMarker ==
  << "<", "<", "<", "<", "d", "o", "t", "p", "r", "o", "m", "p", "t", ":", "a", ">", ">",
     ">" >>
BlankThenBrace ==
  << "a", " ", "{", " ", "{", "{", "x", "}", "}" >>
BlankBetweenExpressions ==
  << "{", "{", "x", "}", "}", " ", "{", "{", "y", "}", "}" >>
BlankInsideBlock ==
  << "{", "{", "#", "x", "}", "}", " ", "{", "{", "/", "x", "}", "}" >>
TextWithBlanks ==
  << "a", " ", "b", " ", " ", "c", "{", "{", "x", "}", "}", "-", "a", "-", "-", "b" >>
Documents ==
  { Scenario1, Scenario2, Scenario3, Scenario4, Scenario5, EmptyFrontmatter,
    SpacedExpression, FullDocument, HelperCall, EachBlock, Partial, BlockWithArgument,
    UnclosedComment, FrontmatterTwice, BodyThenFrontmatter, HeaderAfterFrontmatter,
    MarkerWithAngle, MarkerWithBraces, MarkerInMarker,
    DelimiterMidLine, DelimiterOfFour, ClosedAtEnd, EmptyClosedAtEnd,
    KeySpaceColon, KeyBreakColon, KeyNoColon, KeyWithDashes,
    ValueWithBlanks, ValueNoBlank,
    IndentedYaml, EmptyValueYaml,
    ExpressionThenDashes, BlockWithDashes, BlankThenFrontmatter, HeaderTextDashes,
    TextThenHash, BlockWithHash, TwoHeaderLines, HeaderTextHash,
    LoneBrace, MarkerPrefix, BraceThenExpression, BlockWithLoneTriggers, AngleThenMarker, BlankThenBrace,
    BlankBetweenExpressions, BlankInsideBlock, TextWithBlanks }

\* Texts made of the lexemes of every part of a document.
MaxPieces == 3
Pieces ==
  { <<"{", "{">>, <<"}", "}">>, <<"{", "{", "#">>, <<"{", "{", "/">>, <<"{", "{", "!">>,
    <<"x">>, <<" ">>, <<"\n">>, <<"-", "-", "-">>, <<"k", ":">>, <<"=", "\"">>,
    <<"<", "<", "<", "d", "o", "t", "p", "r", "o", "m", "p", "t", ":">>,
    <<">", ">", ">">> }
Texts == TextsOf(Pieces, MaxPieces) \cup Documents
Init == \E text \in Texts : Start(text)
Spec == Init /\ [][Next]_vars

\* Scheduling: the parse loop runs until it accepts or fails; nothing else
\* runs, so a step that is possible is eventually taken.
MaxFairPieces == 2
FairTexts == TextsOf(Pieces, MaxFairPieces) \cup Documents
InitFair == \E text \in FairTexts : Start(text)
FairSpec == InitFair /\ [][Next]_vars /\ WF_vars(Next)

----------------------------------------------------------------------------
\* C4: total coverage: the delivered tokens, in source order, have contiguous
\* spans that start at 0, and the texts of the tokens of an accepted parse
\* concatenate to the input; no character (whitespace included) lies outside
\* every token.
C4_TotalCoverage ==
  /\ \A i \in 1..Len(tokens) :
       tokens[i].start = (IF i = 1 THEN 0 ELSE tokens[i - 1].end)
  /\ pc = "accepted" =>
       Flatten([i \in 1..Len(tokens) |-> TokenText(tokens[i])]) = input

----------------------------------------------------------------------------
\* Termination.

\* The actions of an entry that are not repetition shifts.
NonRepetition(acts) ==
  {acts[i] : i \in {j \in 1..Len(acts) : ~(acts[j].type = "shift" /\ acts[j].repetition)}}

\* The tokens on the stack, bottom first: the leaves of the stacked trees that
\* are terminals (a node reduced from no children is not a token).
IsTerminal(node) == node.symbol \in 0..(TOKEN_COUNT - 1)
StackTokens ==
  Flatten([i \in 1..(Len(stack) - 1) |->
             SelectSeq(LeavesOf(stack[i + 1].node), IsTerminal)])
\* The delivered tokens that have been shifted: all of them while the next one
\* is being lexed, all but the lookahead otherwise.
ShiftedCount ==
  IF pc \in {"lex", "lex_error"} THEN Len(tokens) ELSE Len(tokens) - 1
TokensConsumedOnce ==
  /\ StackTokens = [i \in 1..ShiftedCount |-> Leaf(tokens[i])]
  /\ \A i \in 2..Len(tokens) : tokens[i - 1].end <= tokens[i].start
\* A pass of the lexer loop that goes round again consumes one character; at
\* the end of the input there is none left and the cursor stays.
LexStepConsumes ==
  (pc = "lex" /\ pc' = "lex") =>
    (position' = position + 1 \/ (Eof /\ position' = position))
IsEmptyToken(t) == t.start = t.end /\ t.symbol # ts_builtin_sym_end
NoEmptyTokenRun ==
  \A i \in 2..Len(tokens) : ~(IsEmptyToken(tokens[i - 1]) /\ IsEmptyToken(tokens[i]))
\* The token a parse state's lex state accepts before it reads a character
\* (NoToken when it accepts none), and the table-level form of NoEmptyTokenRun:
\* shifting such a token leads to a state that accepts no token that way.
EmptyTokenOf(s) == ts_lex(ts_lex_modes(s), NUL, TRUE).accept
EmptyTokenStatesAdvance ==
  \A s \in 0..(STATE_COUNT - 1) :
    EmptyTokenOf(s) # NoToken =>
      \A a \in NonRepetition(ts_language_actions(s, EmptyTokenOf(s))) :
        a.type = "shift" => EmptyTokenOf(a.state) = NoToken

\* C5: parsing terminates: every parse reaches accept or an error; a lexer
\* pass consumes one character (none is left to consume at the end of the
\* input), every shifted token is on the stack exactly once, in order, and no
\* two empty tokens follow one another.
C5_Terminates ==
  /\ <>Done
  /\ [][LexStepConsumes]_vars
  /\ [](TokensConsumedOnce /\ NoEmptyTokenRun /\ EmptyTokenStatesAdvance)
C5_EmptyTokenShifted ==
  /\ pc = "accepted"
  /\ \E i \in 1..Len(tokens) : IsEmptyToken(tokens[i])
  /\ Len(tokens) >= 4

----------------------------------------------------------------------------
\* C7: determinism: in every parse state the parser reaches, each lookahead
\* symbol has at most one applicable action that is not a repetition shift (the
\* token is ts_lex of the lex state and the input, the lex state is
\* ts_lex_modes of the parse state).
C7_Deterministic ==
  pc = "parse" =>
    \A symbol \in 0..(TOKEN_COUNT - 1) :
      Cardinality(NonRepetition(ts_language_actions(TopState, symbol))) <= 1
C7_RepeatEntryReached ==
  /\ pc = "parse"
  /\ Len(ts_language_actions(TopState, token.symbol)) = 2
  /\ Cardinality(ApplicableActions) = 1

----------------------------------------------------------------------------
\* The nodes of a given kind in a subtree.
OfKind(node, kind) == {n \in NodesOf(node) : n.symbol = kind}

\* C10: scenario 1 parses without error to a document whose children are a
\* license_header holding the header comment "# license", a frontmatter holding
\* one yaml_line with key "name" and value exactly "x", and a template_body
\* holding text "Hello ", a handlebars_expression that references the variable
\* "name", and text "!".
C10_Scenario1 ==
  (input = Scenario1 /\ Done) =>
    /\ pc = "accepted"
    /\ ParseTree.symbol = sym_document
    /\ LET parts == NamedChildren(ParseTree)
       IN  /\ Kinds(parts) = <<sym_license_header, sym_frontmatter, sym_template_body>>
           /\ LET header == NamedChildren(parts[1])
                  lines  == OfKind(parts[2], sym_yaml_line)
                  body   == NamedChildren(parts[3])
              IN  /\ Kinds(header) = <<sym_header_comment>>
                  /\ Text(header[1]) = <<"#", " ", "l", "i", "c", "e", "n", "s", "e">>
                  /\ Cardinality(lines) = 1
                  /\ \A line \in lines :
                       /\ {Text(n) : n \in ChildrenByField(line, field_key)} =
                            {<<"n", "a", "m", "e">>}
                       /\ {Text(n) : n \in ChildrenByField(line, field_value)} = {<<"x">>}
                  /\ Kinds(body) = <<sym_text, sym_handlebars_expression, sym_text>>
                  /\ Text(body[1]) = <<"H", "e", "l", "l", "o", " ">>
                  /\ \E n \in OfKind(body[2], sym_variable_reference) :
                       Text(n) = <<"n", "a", "m", "e">>
                  /\ Text(body[3]) = <<"!">>

----------------------------------------------------------------------------
\* Block nesting read off the source text: the tags {{#n}} and {{/n}} with a
\* one-letter name n are followed from offset i with the names of the blocks
\* that are open (innermost last) and the largest number open so far.  The
\* result says whether every close tag names the innermost open block and no
\* block is left open, and gives that largest number.
IsTagAt(text, i, mark) ==
  /\ i + 6 <= Len(text) + 1
  /\ SubSeq(text, i, i + 2) = <<"{", "{", mark>>
  /\ SubSeq(text, i + 4, i + 5) = <<"}", "}">>
RECURSIVE ScanBlocks(_, _, _, _)
ScanBlocks(text, i, open, most) ==
  IF i > Len(text) THEN [ok |-> open = <<>>, depth |-> most]
  ELSE IF IsTagAt(text, i, "#")
    THEN ScanBlocks(text, i + 6, Append(open, text[i + 3]),
                    IF Len(open) + 1 > most THEN Len(open) + 1 ELSE most)
  ELSE IF IsTagAt(text, i, "/")
    THEN IF open # <<>> /\ open[Len(open)] = text[i + 3]
           THEN ScanBlocks(text, i + 6, SubSeq(open, 1, Len(open) - 1), most)
           ELSE [ok |-> FALSE, depth |-> most]
  ELSE IF text[i] = "a" THEN ScanBlocks(text, i + 1, open, most)
  ELSE [ok |-> FALSE, depth |-> most]
SourceBlocks == ScanBlocks(input, 1, <<>>, 0)

\* The nesting depth of handlebars_block nodes in a tree.
Max(set) == IF set = {} THEN 0 ELSE CHOOSE m \in set : \A n \in set : n <= m
RECURSIVE BlockDepth(_)
BlockDepth(node) ==
  Max({BlockDepth(node.children[i]) : i \in 1..Len(node.children)}) +
    (IF node.symbol = sym_handlebars_block THEN 1 ELSE 0)

\* C8: for a text made only of text and correctly nested {{#x}} ... {{/x}} pairs
\* with matching names the parse is accepted, every block of the tree pairs an
\* open tag with the close tag of the same name, and the nesting depth of the
\* handlebars_block nodes equals the largest number of blocks open at once.
C8_BlockNesting ==
  SourceBlocks.ok =>
    /\ ~Failed
    /\ \A b \in Blocks : OpenName(b) = CloseName(b)
    /\ pc = "accepted" =>
         /\ BlockDepth(ParseTree) = SourceBlocks.depth
         /\ Cardinality(Blocks) =
              Cardinality({i \in 1..Len(input) : IsTagAt(input, i, "#")})
C8_ThreeDeep ==
  /\ pc = "accepted"
  /\ SourceBlocks.ok
  /\ SourceBlocks.depth = 3
  /\ BlockDepth(ParseTree) = 3
  /\ \E b \in Blocks : OpenName(b) = {<<"x">>}
  /\ \E b \in Blocks : OpenName(b) = {<<"y">>}

----------------------------------------------------------------------------
\* Re-serializing and re-parsing.

\* The text covered by the leaf tokens of a tree, in source order.
Reserialize(tree) ==
  LET leaves == SelectSeq(LeavesOf(tree), IsTerminal)
  IN  Flatten([i \in 1..Len(leaves) |-> Text(leaves[i])])

\* After an accepted first parse the tree is kept and the text its leaves cover
\* is parsed from the start.
Reparse ==
  /\ pc = "accepted"
  /\ pass = 1
  /\ pass' = 2
  /\ first_tree' = ParseTree
  /\ input' = Reserialize(ParseTree)
  /\ pc' = "lex"
  /\ position' = 0
  /\ lex_state' = ts_lex_modes(1)
  /\ result' = FALSE
  /\ result_symbol' = NoToken
  /\ token_start' = 0
  /\ token_end' = 0
  /\ token' = [symbol |-> NoToken, start |-> 0, end |-> 0]
  /\ tokens' = <<>>
  /\ stack' = <<[state |-> 1, node |-> NoNode]>>
  /\ other' = other

NextReparse == Next \/ Reparse
SpecReparse == Init /\ [][NextReparse]_vars

\* The shape of a tree: the node kinds and their nesting; the production of a
\* node decides the fields and aliases of its children.
RECURSIVE Shape(_)
Shape(node) ==
  [symbol |-> node.symbol, production_id |-> node.production_id,
   children |-> [i \in 1..Len(node.children) |-> Shape(node.children[i])]]

\* C9: idempotence: when an accepted parse is re-serialized from the text its
\* leaf tokens cover and that text is parsed again, the second parse is accepted
\* with a tree of the same shape.
C9_Idempotent ==
  (pass = 2 /\ Done) => (pc = "accepted" /\ Shape(ParseTree) = Shape(first_tree))

----------------------------------------------------------------------------
\* C11: scenario 2 parses with no error to exactly one handlebars_block named
\* "if" whose content is text "yes", an else expression, text "no", in that
\* order, and which is closed by the close_block {{/if}}.
C11_Scenario2 ==
  (input = Scenario2 /\ Done) =>
    /\ pc = "accepted"
    /\ Cardinality(OfKind(ParseTree, sym_handlebars_block)) = 1
    /\ \A block \in OfKind(ParseTree, sym_handlebars_block) :
         LET parts == NamedChildren(block)
         IN  /\ Kinds(parts) = <<sym_block_expression, sym_text, sym_handlebars_expression,
                                 sym_text, sym_close_block>>
             /\ OpenName(block) = {<<"i", "f">>}
             /\ Text(parts[2]) = <<"y", "e", "s">>
             /\ Text(parts[3]) = <<"{", "{", "e", "l", "s", "e", "}", "}">>
             /\ OfKind(parts[3], anon_sym_else) # {}
             /\ Text(parts[4]) = <<"n", "o">>
             /\ Text(parts[5]) = <<"{", "{", "/", "i", "f", "}", "}">>
             /\ CloseName(block) = {<<"i", "f">>}
C11_ElseBlockAccepted ==
  /\ input = Scenario2
  /\ pc = "accepted"
  /\ OfKind(ParseTree, anon_sym_else) # {}

----------------------------------------------------------------------------
\* A block is open: the stack holds more open tags of blocks that have not
\* been reduced to a handlebars_block than complete close tags (a close_block,
\* or its three tokens up to the closing braces).
OpenTagsOnStack ==
  {i \in 2..Len(stack) : stack[i].node.symbol = sym_block_expression}
CloseTagsOnStack ==
  {i \in 2..Len(stack) :
     \/ stack[i].node.symbol = sym_close_block
     \/ /\ stack[i].node.symbol = anon_sym_LBRACE_LBRACE_SLASH
        /\ i + 2 <= Len(stack)
        /\ stack[i + 2].node.symbol = anon_sym_RBRACE_RBRACE}
OpenBlockOnStack == Cardinality(OpenTagsOnStack) > Cardinality(CloseTagsOnStack)
\* The parse states that lex template content inside a block.
BlockStates == {s \in 0..(STATE_COUNT - 1) : ts_lex_modes(s) = 5}
\* The texts of the nodes on the stack above the bottom, bottom first.
StackTexts == [i \in 1..(Len(stack) - 1) |-> Text(stack[i + 1].node)]

\* C12: when the end of the input is reached while a block is open the parse
\* fails instead of accepting: no state inside an open block has an action on
\* the end token, and for {{#if cond}}unclosed the open tag and the text
\* "unclosed" have been consumed and are on the stack when the error is raised.
C12_UnclosedBlock ==
  /\ \A s \in BlockStates : ts_language_actions(s, ts_builtin_sym_end) = <<>>
  /\ (OpenBlockOnStack /\ pc = "parse" /\ token.symbol = ts_builtin_sym_end) =>
       \A a \in ApplicableActions : a.type = "recover"
  /\ (OpenBlockOnStack /\ Done) => Failed
  /\ (input = Scenario3 /\ Done) =>
       /\ Failed
       /\ Kinds([i \in 1..(Len(stack) - 1) |-> stack[i + 1].node]) =
            <<sym_block_expression, sym_text>>
       /\ StackTexts =
            << <<"{", "{", "#", "i", "f", " ", "c", "o", "n", "d", "}", "}">>,
               <<"u", "n", "c", "l", "o", "s", "e", "d">> >>
C12_Scenario3Failed ==
  /\ input = Scenario3
  /\ Failed
  /\ OpenBlockOnStack

----------------------------------------------------------------------------
\* C13: scenario 5 parses with no error to a single dotprompt_marker whose
\* content is exactly " raw stuff ", the blanks at both ends kept.
C13_Scenario5 ==
  (input = Scenario5 /\ Done) =>
    /\ pc = "accepted"
    /\ Kinds(NamedChildren(ParseTree)) = <<sym_template_body>>
    /\ Kinds(NamedChildren(NamedChildren(ParseTree)[1])) = <<sym_dotprompt_marker>>
    /\ LET marker == NamedChildren(NamedChildren(ParseTree)[1])[1]
       IN  /\ marker.start = 0 /\ marker.end = Len(input)
           /\ Kinds(NamedChildren(marker)) = <<aux_sym_dotprompt_marker_token1>>
           /\ Text(NamedChildren(marker)[1]) =
                <<" ", "r", "a", "w", " ", "s", "t", "u", "f", "f", " ">>
C13_MarkerAccepted ==
  /\ input = Scenario5
  /\ pc = "accepted"
  /\ OfKind(ParseTree, sym_dotprompt_marker) # {}

----------------------------------------------------------------------------
\* C14: the empty input is accepted and parses to a document with no children;
\* the only token is the end token.
C14_EmptyInput ==
  (input = <<>> /\ Done) =>
    /\ pc = "accepted"
    /\ ParseTree.symbol = sym_document
    /\ ParseTree.children = <<>>
    /\ tokens = <<[symbol |-> ts_builtin_sym_end, start |-> 0, end |-> 0]>>
C14_EmptyAccepted ==
  /\ input = <<>>
  /\ pc = "accepted"
  /\ Len(stack) = 2

\* C15: the input "---\n---\n" is accepted and parses to a document whose only
\* child is a frontmatter that holds no yaml_line.
C15_EmptyFrontmatter ==
  (input = EmptyFrontmatter /\ Done) =>
    /\ pc = "accepted"
    /\ ParseTree.symbol = sym_document
    /\ Kinds(NamedChildren(ParseTree)) = <<sym_frontmatter>>
    /\ Kinds(NamedChildren(NamedChildren(ParseTree)[1])) =
         <<sym_frontmatter_delimiter, sym_frontmatter_delimiter>>
    /\ OfKind(ParseTree, sym_yaml_line) = {}
C15_FrontmatterOnly ==
  /\ input = EmptyFrontmatter
  /\ pc = "accepted"
  /\ OfKind(ParseTree, sym_frontmatter) # {}

----------------------------------------------------------------------------
\* The section sequences a document may have: license_header, frontmatter and
\* template_body, each at most once, in that order.
SectionOrders ==
  { <<>>, <<sym_license_header>>, <<sym_frontmatter>>, <<sym_template_body>>,
    <<sym_license_header, sym_frontmatter>>, <<sym_license_header, sym_template_body>>,
    <<sym_frontmatter, sym_template_body>>,
    <<sym_license_header, sym_frontmatter, sym_template_body>> }

\* C16: document child order: every document node that is reduced has at most
\* one license_header, then at most one frontmatter, then at most one
\* template_body, in that order, the sections are nowhere else on the stack or
\* in a tree, and an accepted parse ends with that document as the tree.
C16_DocumentOrder ==
  /\ \A n \in StackNodes :
       n.symbol = sym_document =>
         /\ Kinds(n.children) \in SectionOrders
         /\ Len(stack) = 2 /\ n = ParseTree
  /\ \A n \in StackNodes :
       \A i \in 1..Len(n.children) :
         n.children[i].symbol \in {sym_license_header, sym_frontmatter, sym_template_body}
           => n.symbol = sym_document
  /\ SelectSeq(Kinds([i \in 1..(Len(stack) - 1) |-> stack[i + 1].node]),
                 LAMBDA k : k \in {sym_license_header, sym_frontmatter, sym_template_body})
       \in SectionOrders
  /\ pc = "accepted" => ParseTree.symbol = sym_document
C16_ThreeSections ==
  /\ pc = "accepted"
  /\ Kinds(ParseTree.children) = <<sym_license_header, sym_frontmatter, sym_template_body>>
  /\ input = HeaderAfterFrontmatter

----------------------------------------------------------------------------
\* The positions of the frontmatter_delimiter children of a node.
DelimiterPositions(node) ==
  {i \in 1..Len(node.children) : node.children[i].symbol = sym_frontmatter_delimiter}

\* The delimiter tokens the lexer has delivered.
DelimiterTokens == {i \in 1..Len(tokens) : tokens[i].symbol = sym_frontmatter_delimiter}

\* C17: frontmatter is bounded by two delimiters: every frontmatter node that
\* is reduced has a frontmatter_delimiter as its first child and exactly one
\* more after its content, followed only by the line end; and a parse that
\* ends after an opening delimiter with no closing one ends in an error with
\* no frontmatter reduced.
C17_FrontmatterBounded ==
  /\ \A n \in StackNodes :
       n.symbol = sym_frontmatter =>
         /\ Len(n.children) \in {4, 5}
         /\ DelimiterPositions(n) = {1, Len(n.children) - 1}
         /\ n.children[2].symbol = aux_sym_frontmatter_token1
         /\ n.children[Len(n.children)].symbol = aux_sym_frontmatter_token1
         /\ Len(n.children) = 5 => n.children[3].symbol = aux_sym_frontmatter_repeat1
         /\ n.children[1].start < n.children[Len(n.children) - 1].start
  /\ (Done /\ Cardinality(DelimiterTokens) = 1) =>
       /\ Failed
       /\ \A n \in StackNodes : n.symbol # sym_frontmatter
  /\ \A i \in 2..Len(stack) :
       (Done /\ stack[i].node.symbol = sym_frontmatter_delimiter) => Failed
C17_FrontmatterWithContent ==
  /\ pc = "accepted"
  /\ \E n \in StackNodes :
       /\ n.symbol = sym_frontmatter
       /\ Len(n.children) = 5
       /\ OfKind(n, sym_yaml_line) # {}

----------------------------------------------------------------------------
\* The lexer is entered at end of input: the cursor is at the end and nothing
\* has been consumed into the token being scanned.
EnteredAtEnd == pc = "lex" /\ Eof /\ token_start = position

\* C18: end-of-input handling of the tokenizer: in every lexical mode, when the
\* cursor is at end-of-input the tokenizer yields the end token, neither an
\* empty content token nor a lexing failure, and no lexer transition advances
\* the cursor past end-of-input.
C18_EndOfInput ==
  /\ (EnteredAtEnd /\ LexPass.next.op = "end") =>
       /\ LexPass.accept = ts_builtin_sym_end \/ (LexPass.accept = NoToken /\ result)
       /\ LexPass.accept = NoToken => result_symbol = ts_builtin_sym_end
  /\ \A i \in 1..Len(tokens) :
       (tokens[i].start = Len(input) /\ tokens[i].end = Len(input)) =>
         tokens[i].symbol = ts_builtin_sym_end
  /\ pc = "lex_error" => token_start < Len(input)
  /\ position <= Len(input)

----------------------------------------------------------------------------
\* The offsets at or after `from` where "}}" begins in the input.
ClosePositions(from) ==
  {k \in from..(Len(input) - 2) : input[k + 1] = "}" /\ input[k + 2] = "}"}
Min(S) == CHOOSE x \in S : \A y \in S : x <= y

\* The lex states that scan template content, and the tokens they deliver.
TemplateModes == {5, 37, 38, 39}
TemplateTokens ==
  { ts_builtin_sym_end, sym_text, anon_sym_LBRACE_LBRACE, anon_sym_LBRACE_LBRACE_POUND,
    anon_sym_LBRACE_LBRACE_SLASH, anon_sym_LBRACE_LBRACE_BANG,
    anon_sym_LBRACE_LBRACE_BANG_DASH_DASH, anon_sym_LT_LT_LTdotprompt_COLON }

\* C20: a comment opened with {{! (no dashes) is closed by the first following
\* }}: the content token starts right after the opener and runs up to where the
\* first }} begins, so it holds no }} but may hold single } characters or be
\* empty; the }} is the next token; the three reduce to one handlebars_comment;
\* and what follows the }} is lexed again as template content.
C20_BangCommentClosed ==
  /\ \A i \in 1..Len(tokens) :
       tokens[i].symbol = aux_sym_handlebars_comment_token1 =>
         ~Contains(TokenText(tokens[i]), <<"}", "}">>)
  /\ \A i \in 1..(Len(tokens) - 1) :
       tokens[i].symbol = anon_sym_LBRACE_LBRACE_BANG =>
         LET closes == ClosePositions(tokens[i].end)
         IN  /\ tokens[i + 1].symbol = aux_sym_handlebars_comment_token1
             /\ tokens[i + 1].start = tokens[i].end
             /\ closes # {} => tokens[i + 1].end = Min(closes)
             /\ (closes # {} /\ i + 2 <= Len(tokens)) =>
                  tokens[i + 2] = [symbol |-> anon_sym_RBRACE_RBRACE, start |-> Min(closes),
                                   end |-> Min(closes) + 2]
             /\ (closes # {} /\ i + 3 <= Len(tokens)) =>
                  /\ tokens[i + 3].symbol \in TemplateTokens
                  /\ tokens[i + 3].start = Min(closes) + 2
             /\ (closes # {} /\ pc = "accepted") =>
                  Cardinality({n \in OfKind(ParseTree, sym_handlebars_comment) :
                                 /\ n.start = tokens[i].start
                                 /\ n.end = Min(closes) + 2
                                 /\ n.children = <<Leaf(tokens[i]), Leaf(tokens[i + 1]),
                                                   Leaf(tokens[i + 2])>>}) = 1
  /\ (/\ Len(stack) > 2
      /\ stack[Len(stack)].node.symbol = anon_sym_RBRACE_RBRACE
      /\ stack[Len(stack) - 1].node.symbol = aux_sym_handlebars_comment_token1) =>
       ts_lex_modes(TopState) \in TemplateModes
C20_BraceInComment ==
  /\ pc = "accepted"
  /\ \E i \in 1..Len(tokens) :
       /\ tokens[i].symbol = aux_sym_handlebars_comment_token1
       /\ Contains(TokenText(tokens[i]), <<"}">>)
  /\ OfKind(ParseTree, sym_handlebars_comment) # {}

----------------------------------------------------------------------------
\* Two parses on the one language.  The first text is parsed alone (pass 1),
\* then parsed again (pass 2) while a second parse, with its own cursor and
\* stack, runs on its own text; the two are interleaved step by step, a lexer
\* pass or a parser action at a time.  ts_lex and the tables of the language
\* are operators here as they are const data in the source: no step writes them
\* and both parses read the same ones.

MaxPairPieces == 2
PairPieces ==
  { <<"{", "{", " ", "a", "}", "}">>, <<"{", "{", "#", "x", "}", "}">>,
    <<"{", "{", "/", "x", "}", "}">>, <<"{", "{", "!">> }
PairTexts == TextsOf(PairPieces, MaxPairPieces)
OtherTexts ==
  { <<"{", "{", " ", "a", "}", "}">>,
    <<"{", "{", "#", "x", "}", "}", "{", "{", "/", "x", "}", "}">> }

InitPair ==
  \E text \in PairTexts, second \in OtherTexts :
    /\ Begin(text)
    /\ other = [parse |-> Begun(second), id |-> 2, alone |-> NoOutcome]

\* The parse that ran alone has ended: its outcome is kept and the same text is
\* set up again.
ParseAgain ==
  /\ Done
  /\ pass = 1
  /\ other.id = 2
  /\ pass' = 2
  /\ other' = [other EXCEPT !.alone = Outcome(Context)]
  /\ pc' = "lex"
  /\ position' = 0
  /\ lex_state' = ts_lex_modes(1)
  /\ result' = FALSE
  /\ result_symbol' = NoToken
  /\ token_start' = 0
  /\ token_end' = 0
  /\ token' = [symbol |-> NoToken, start |-> 0, end |-> 0]
  /\ tokens' = <<>>
  /\ stack' = <<[state |-> 1, node |-> NoNode]>>
  /\ UNCHANGED <<input, first_tree>>

\* The running parse is suspended where it is and the other one runs on.
Switch ==
  /\ pass = 2
  /\ other.id \in {1, 2}
  /\ other' = [parse |-> Context, id |-> 3 - other.id, alone |-> other.alone]
  /\ input' = other.parse.input
  /\ pc' = other.parse.pc
  /\ position' = other.parse.position
  /\ lex_state' = other.parse.lex_state
  /\ result' = other.parse.result
  /\ result_symbol' = other.parse.result_symbol
  /\ token_start' = other.parse.token_start
  /\ token_end' = other.parse.token_end
  /\ token' = other.parse.token
  /\ tokens' = other.parse.tokens
  /\ stack' = other.parse.stack
  /\ UNCHANGED <<pass, first_tree>>

NextPair == Next \/ ParseAgain \/ Switch
SpecPair == InitPair /\ [][NextPair]_vars

\* The two parses of pass 2, whichever of them is running.
ParseOne == IF other.id = 2 THEN Context ELSE other.parse
ParseTwo == IF other.id = 2 THEN other.parse ELSE Context
IsPrefix(s, t) == Len(s) <= Len(t) /\ s = SubSeq(t, 1, Len(s))
Ended(parse) == parse.pc \in {"accepted", "lex_error", "syntax_error"}

----------------------------------------------------------------------------
MarkerOpen == <<"<", "<", "<", "d", "o", "t", "p", "r", "o", "m", "p", "t", ":">>
MarkerClose == <<">", ">", ">">>

\* The input is <<<dotprompt: content >>> with no >>> in the content.
IsMarkerText ==
  /\ Len(input) >= Len(MarkerOpen) + Len(MarkerClose)
  /\ SubSeq(input, 1, Len(MarkerOpen)) = MarkerOpen
  /\ SubSeq(input, Len(input) - 2, Len(input)) = MarkerClose
  /\ ~Contains(SubSeq(input, Len(MarkerOpen) + 1, Len(input) - 1), MarkerClose)
MarkerContent == SubSeq(input, Len(MarkerOpen) + 1, Len(input) - 3)

\* C21: marker content is opaque up to >>>: <<<dotprompt: + content + >>>, for
\* every content without >>> (single > characters, {{, }}, <<<dotprompt: and
\* the empty content included), parses with no error to a single
\* dotprompt_marker whose content is that string, with no node nested in it.
C21_MarkerOpaque ==
  (IsMarkerText /\ Done) =>
    /\ pc = "accepted"
    /\ Cardinality(OfKind(ParseTree, sym_dotprompt_marker)) = 1
    /\ \A marker \in OfKind(ParseTree, sym_dotprompt_marker) :
         /\ marker.start = 0 /\ marker.end = Len(input)
         /\ \A i \in 1..Len(marker.children) : marker.children[i].children = <<>>
         /\ Flatten([i \in 1..Len(NamedChildren(marker)) |-> Text(NamedChildren(marker)[i])])
              = MarkerContent

----------------------------------------------------------------------------
Whitespace == {" ", "\t", "\n", "\r"}

\* Nothing but whitespace stands between offset k and the end of its line.
LineEndsAt(k) ==
  \A m \in (k + 1)..Len(input) :
    (\A n \in (k + 1)..(m - 1) : input[n] # "\n") => input[m] \in Whitespace

\* The delimiter tokens lexed inside a frontmatter: those after the opening one.
InnerDelimiterTokens == {i \in DelimiterTokens : \E j \in DelimiterTokens : j < i}

\* C22: in frontmatter mode --- is tokenized as frontmatter_delimiter only when
\* it is followed by end-of-line or end-of-input: a --- with further
\* non-whitespace characters after it on the same line (---abc, ----) is never
\* delivered as a frontmatter_delimiter token.
C22_DelimiterEndsLine ==
  \A i \in InnerDelimiterTokens : LineEndsAt(tokens[i].end)

\* C23: a closing --- followed directly by end-of-input closes the frontmatter:
\* ---\n body --- with nothing after it, for a well-formed body (here the empty
\* body and the line "k: v"), is accepted with no error and yields a
\* frontmatter node.
C23_ClosedAtEndOfInput ==
  (input \in {EmptyClosedAtEnd, ClosedAtEnd} /\ Done) =>
    /\ pc = "accepted"
    /\ OfKind(ParseTree, sym_frontmatter) # {}

----------------------------------------------------------------------------
\* C24: in frontmatter mode an identifier run is tokenized as a YAML key only
\* when the very next character is ':': every key token is directly followed
\* by ':', and no yaml_line is formed with whitespace or a line break between
\* its key and its colon.
C24_KeyNeedsColon ==
  /\ \A i \in 1..Len(tokens) :
       tokens[i].symbol = aux_sym_yaml_line_token1 =>
         /\ tokens[i].end < Len(input)
         /\ input[tokens[i].end + 1] = ":"
  /\ \A line \in UNION {OfKind(n, sym_yaml_line) : n \in StackNodes} :
       /\ Len(line.children) >= 2
       /\ line.children[1].symbol = aux_sym_yaml_line_token1
       /\ line.children[2].symbol = anon_sym_COLON
       /\ line.children[1].end = line.children[2].start

----------------------------------------------------------------------------
\* The values of the yaml_line nodes built so far: the children that carry the
\* field `value`.
YamlValues ==
  UNION {ChildrenByField(line, field_value) :
           line \in UNION {OfKind(n, sym_yaml_line) : n \in StackNodes}}

\* C25: the YAML value token is the remainder of the line after ':' with the
\* surrounding whitespace trimmed: the node in the value field of a yaml_line
\* neither starts nor ends with whitespace, and for "name: x" its text is "x".
C25_ValueTrimmed ==
  /\ \A value \in YamlValues :
       /\ value.symbol = aux_sym_yaml_line_token2
       /\ value.start < value.end
       /\ input[value.start + 1] \notin Whitespace
       /\ input[value.end] \notin Whitespace
  /\ (input = Scenario1 /\ pc = "accepted") =>
       {Text(value) : value \in YamlValues} = {<<"x">>}

----------------------------------------------------------------------------
\* C26: a YAML value token never spans more than one line: it contains no
\* newline character, and for a:\n  b: c the key a has no value and b: c is
\* tokenized as its own key, colon and value.
C26_ValueOnOneLine ==
  /\ \A i \in 1..Len(tokens) :
       tokens[i].symbol = aux_sym_yaml_line_token2 =>
         ~Contains(TokenText(tokens[i]), <<"\n">>)
  /\ (input = IndentedYaml /\ Done) =>
       /\ pc = "accepted"
       /\ {Text(key) : key \in UNION {ChildrenByField(line, field_key) :
                                        line \in OfKind(ParseTree, sym_yaml_line)}}
            = {<<"a">>, <<"b">>}
       /\ \A line \in OfKind(ParseTree, sym_yaml_line) :
            Text(line.children[1]) = <<"a">> => ChildrenByField(line, field_value) = {}

----------------------------------------------------------------------------
\* The tokens of template content.
ContentTokens == TemplateTokens \ {ts_builtin_sym_end}
ContentDelivered == \E j \in 1..Len(tokens) : tokens[j].symbol \in ContentTokens
ThreeDashes == <<"-", "-", "-">>

----------------------------------------------------------------------------
\* A token other than a header comment has been delivered.
PastHeader == \E j \in 1..Len(tokens) : tokens[j].symbol # sym_header_comment

\* C28: # starts a header_comment only at the true start of the document: a
\* header_comment token has only header_comment tokens before it; once another
\* token has been delivered the lexer no longer runs in the state that knows
\* the header comment, a # of the template text is a text token, and a
\* license_header is the first child of the document.
C28_HeaderOnlyAtStart ==
  /\ \A i \in 1..Len(tokens) :
       tokens[i].symbol = sym_header_comment =>
         \A j \in 1..(i - 1) : tokens[j].symbol = sym_header_comment
  /\ (PastHeader /\ pc = "lex") => ts_lex_modes(TopState) # 37
  /\ \A i \in 1..Len(tokens) :
       (/\ tokens[i].start < tokens[i].end
        /\ input[tokens[i].start + 1] = "#"
        /\ \E j \in 1..(i - 1) : tokens[j].symbol \in ContentTokens) =>
         tokens[i] = [symbol |-> sym_text, start |-> tokens[i].start,
                      end |-> tokens[i].start + 1]
  /\ \A n \in StackNodes :
       /\ n.symbol = sym_license_header =>
            \A j \in 1..Len(tokens) :
              tokens[j].symbol # sym_header_comment => tokens[j].start >= n.end
       /\ n.symbol = sym_document =>
            \A i \in 2..Len(n.children) : n.children[i].symbol # sym_license_header
C28_HashIsText ==
  /\ input = HeaderTextHash
  /\ pc = "accepted"
  /\ Cardinality(OfKind(ParseTree, sym_license_header)) = 1
  /\ \E t \in OfKind(ParseTree, sym_text) : Text(t) = <<"#">>

----------------------------------------------------------------------------
\* The offset of the first character of a token that is not whitespace (the end
\* of the token when it has none).
FirstMark(t) ==
  Min({k \in t.start..t.end : k = t.end \/ input[k + 1] \notin Whitespace})
BraceOpeners ==
  { anon_sym_LBRACE_LBRACE, anon_sym_LBRACE_LBRACE_POUND, anon_sym_LBRACE_LBRACE_SLASH,
    anon_sym_LBRACE_LBRACE_BANG, anon_sym_LBRACE_LBRACE_BANG_DASH_DASH }
CharAt(k) == IF k < Len(input) THEN input[k + 1] ELSE NUL
\* pat stands in the input at offset k.
StartsAt(k, pat) ==
  /\ k + Len(pat) <= Len(input)
  /\ SubSeq(input, k + 1, k + Len(pat)) = pat

\* C29: trigger characters that do not complete an opener are text: in template
\* text a { not followed by a second { is a text token that ends right after
\* it, and so is a < that does not begin <<<dotprompt: (its proper prefixes
\* included); an opener token is delivered only for a complete opener; and the
\* next token starts where the text token ends, no character lost or read
\* twice.
C29_LoneTriggerIsText ==
  \A i \in 1..Len(tokens) :
    LET t == tokens[i]
        s == FirstMark(t)
    IN  t.symbol \in ContentTokens =>
          /\ (CharAt(s) = "{" /\ CharAt(s + 1) # "{") =>
               t.symbol = sym_text /\ t.end = s + 1
          /\ (CharAt(s) = "<" /\ ~StartsAt(s, MarkerOpen)) =>
               t.symbol = sym_text /\ t.end = s + 1
          /\ t.symbol \in BraceOpeners => CharAt(s) = "{" /\ CharAt(s + 1) = "{"
          /\ t.symbol = anon_sym_LT_LT_LTdotprompt_COLON =>
               SubSeq(input, s + 1, t.end) = MarkerOpen
          /\ (t.symbol = sym_text /\ i < Len(tokens)) =>
               /\ tokens[i + 1].start = t.end
               /\ t.start < t.end
C29_LoneBraceAndAngle ==
  /\ input = BlockWithLoneTriggers
  /\ pc = "accepted"
  /\ \E t \in OfKind(ParseTree, sym_text) : Text(t) = <<"{">>
  /\ \E t \in OfKind(ParseTree, sym_text) : Text(t) = <<"<">>

----------------------------------------------------------------------------
\* The characters that end a run of text.
Triggers == {"#", "<", "{"}
NoTrigger(t) == \A k \in (t.start + 1)..t.end : input[k] \notin Triggers

\* Two text tokens that follow one another do not split a run: together they
\* hold a trigger character, and the second starts with one when the first ends
\* without one.
RunsNotSplit ==
  \A i \in 1..(Len(tokens) - 1) :
    (tokens[i].symbol = sym_text /\ tokens[i + 1].symbol = sym_text) =>
      /\ ~(NoTrigger(tokens[i]) /\ NoTrigger(tokens[i + 1]))
      /\ input[tokens[i].end] \in Triggers \/ CharAt(tokens[i + 1].start) \in Triggers

\* The characters of template text that stand before an opener are not part of
\* the opener token.
RunsAreText ==
  \A i \in 1..Len(tokens) :
    tokens[i].symbol \in ContentTokens \ {sym_text} =>
      FirstMark(tokens[i]) = tokens[i].start

\* C30: maximal munch for text: in template text a maximal run of non-trigger
\* characters (no #, <, {) is delivered as exactly one text token: it is not
\* split over two text tokens, and it is not left out of the text tokens.
C30_MaximalMunch == RunsNotSplit /\ RunsAreText

----------------------------------------------------------------------------
\* The literal characters of each opener of template text.
OpenerLiteral(symbol) ==
  CASE symbol = anon_sym_LBRACE_LBRACE -> <<"{", "{">>
    [] symbol = anon_sym_LBRACE_LBRACE_POUND -> <<"{", "{", "#">>
    [] symbol = anon_sym_LBRACE_LBRACE_SLASH -> <<"{", "{", "/">>
    [] symbol = anon_sym_LBRACE_LBRACE_BANG -> <<"{", "{", "!">>
    [] symbol = anon_sym_LBRACE_LBRACE_BANG_DASH_DASH -> <<"{", "{", "!", "-", "-">>
    [] OTHER -> MarkerOpen

\* C31: in template text every character before a trigger character belongs to
\* a text token: an opener token delivered in template text spans exactly its
\* literal characters, so whitespace that directly precedes an opener is not
\* part of the opener token.
C31_OpenerSpansLiteral ==
  \A i \in 1..Len(tokens) :
    tokens[i].symbol \in ContentTokens \ {sym_text} =>
      TokenText(tokens[i]) = OpenerLiteral(tokens[i].symbol)

----------------------------------------------------------------------------
\* Tags with arguments: a helper expression {{x ...}} and a block {{#x ...}}
\* closed by {{/x}}, the tag holding paths, an @-identifier, literals and =.

MaxArgumentPieces == 4
ArgumentPieces ==
  { <<" ", "a">>, <<" ", "b">>, <<"=">>, <<" ", "1">>, <<" ", "\"", "s", "\"">>,
    <<" ", "@", "i">> }
ArgumentTexts ==
  { <<"{", "{", "x">> \o args \o <<"}", "}">> :
      args \in TextsOf(ArgumentPieces, MaxArgumentPieces) } \cup
  { <<"{", "{", "#", "x">> \o args \o <<"}", "}", "{", "{", "/", "x", "}", "}">> :
      args \in TextsOf(ArgumentPieces, MaxArgumentPieces) }
InitArguments == \E text \in ArgumentTexts : Start(text)
SpecArguments == InitArguments /\ [][Next]_vars

\* The token delivered after the leaf has the symbol.
FollowedBy(leaf, symbol) ==
  \E i \in 2..Len(tokens) :
    /\ tokens[i - 1].start = leaf.start /\ tokens[i - 1].end = leaf.end
    /\ tokens[i].symbol = symbol
\* The tokens that open a tag or stand before the head of an expression.
HeadOpeners ==
  { anon_sym_LBRACE_LBRACE, anon_sym_LBRACE_LBRACE_POUND, anon_sym_LBRACE_LBRACE_SLASH,
    anon_sym_GT }
\* The values a hash param can take.
HashValues == {sym_variable_reference, sym_string_literal, sym_number, sym_boolean}
\* The path tokens in argument position: after the helper name, not after =.
ArgumentPaths ==
  { i \in 2..Len(tokens) :
      /\ tokens[i].symbol = sym_path
      /\ tokens[i - 1].symbol \notin HeadOpeners \cup {anon_sym_EQ} }
IsToken(leaf, i) == leaf.start = tokens[i].start /\ leaf.end = tokens[i].end

\* C32: in a block open tag or a helper expression a path followed by = is
\* reduced as the key of a hash_param, whose value is the literal or reference
\* after the =, and a path not followed by = is reduced as a
\* variable_reference; only the next token decides.
C32_HashParamByEquals ==
  /\ \A n \in StackNodes :
       /\ n.symbol = sym_hash_param =>
            /\ Len(n.children) = 3
            /\ n.children[1].symbol = sym_path
            /\ FollowedBy(n.children[1], anon_sym_EQ)
            /\ n.children[2].symbol = anon_sym_EQ
            /\ n.children[3].symbol \in HashValues
       /\ (n.symbol = sym_variable_reference /\ n.children[1].symbol = sym_path) =>
            ~FollowedBy(n.children[1], anon_sym_EQ)
  /\ pc = "accepted" =>
       \A i \in ArgumentPaths :
         IF tokens[i + 1].symbol = anon_sym_EQ
         THEN \E n \in OfKind(ParseTree, sym_hash_param) : IsToken(n.children[1], i)
         ELSE \E n \in OfKind(ParseTree, sym_argument) :
                /\ n.children[1].symbol = sym_variable_reference
                /\ IsToken(n.children[1].children[1], i)
C32_BothKinds ==
  /\ pc = "accepted"
  /\ input = <<"{", "{", "#", "x", " ", "a", " ", "b", "=", " ", "1">>
               \o <<"}", "}", "{", "{", "/", "x", "}", "}">>
  /\ Cardinality(OfKind(ParseTree, sym_hash_param)) = 1
  /\ Cardinality(OfKind(ParseTree, sym_variable_reference)) = 1

\* The arguments of a tag that are not hash params.
PositionalArguments(node) ==
  {a \in OfKind(node, sym_argument) : a.children[1].symbol # sym_hash_param}

\* C33: inside a block open tag the positional arguments come before the hash
\* params: no block_expression is reduced in which a positional argument stands
\* after a hash param.
C33_ArgumentsBeforeHashParams ==
  \A n \in StackNodes :
    n.symbol = sym_block_expression =>
      \A h \in OfKind(n, sym_hash_param) :
        \A a \in PositionalArguments(n) : a.start < h.start

----------------------------------------------------------------------------
\* Tags with keywords: else, true and false, alone or continued by a letter or
\* a dot, in the head of an expression, after a helper name, after =, after >,
\* as the name of a block and as the name of a close tag.

MaxKeywordPieces == 3
KeywordPieces ==
  { <<" ", "e", "l", "s", "e">>, <<" ", "t", "r", "u", "e">>,
    <<" ", "f", "a", "l", "s", "e">>, <<" ", "x">>, <<"=">>, <<"e">>, <<".", "x">> }
KeywordOpeners ==
  { <<"{", "{">>, <<"{", "{", "#">>, <<"{", "{", ">">>,
    <<"{", "{", "#", "x", "}", "}", "{", "{", "/">> }
KeywordTexts ==
  { open \o content \o <<"}", "}">> :
      open \in KeywordOpeners, content \in TextsOf(KeywordPieces, MaxKeywordPieces) }
InitKeywords == \E text \in KeywordTexts : Start(text)
SpecKeywords == InitKeywords /\ [][Next]_vars

\* The characters that continue a path.
PathChars ==
  { ".", "_",
    "0", "1", "2", "3", "4", "5", "6", "7", "8", "9",
    "a", "b", "c", "d", "e", "f", "g", "h", "i", "j", "k", "l", "m", 
    "n", "o", "p", "q", "r", "s", "t", "u", "v", "w", "x", "y", "z",
    "A", "B", "C", "D", "E", "F", "G", "H", "I", "J", "K", "L", "M", 
    "N", "O", "P", "Q", "R", "S", "T", "U", "V", "W", "X", "Y", "Z" }
Else == <<"e", "l", "s", "e">>
True == <<"t", "r", "u", "e">>
False == <<"f", "a", "l", "s", "e">>
Booleans == {anon_sym_true, anon_sym_false}

\* The token was taken by the parser: it is not a pending lookahead.
Taken(i) == i < Len(tokens) \/ pc = "accepted"
\* A keyword token of tokens[i] stands where its keyword is reserved.
KeywordInPosition(i) ==
  LET t == tokens[i]
      head == tokens[i - 1].symbol \in HeadOpeners
  IN  /\ t.symbol = anon_sym_else => tokens[i - 1].symbol = anon_sym_LBRACE_LBRACE
      /\ t.symbol \in Booleans =>
           tokens[i - 1].symbol \notin HeadOpeners \cup {anon_sym_else}
\* A keyword token holds the letters of its keyword and no more, and in the
\* position where a keyword is reserved its letters are not a path.
KeywordLetters(i) ==
  LET t == tokens[i]
      head == tokens[i - 1].symbol \in HeadOpeners
  IN  /\ t.symbol = anon_sym_else => TokenText(t) = Else
      /\ t.symbol = anon_sym_true => TokenText(t) = True
      /\ t.symbol = anon_sym_false => TokenText(t) = False
      /\ t.symbol \in Booleans \cup {anon_sym_else, sym_path} =>
           CharAt(t.end) \notin PathChars
      /\ (t.symbol = sym_path /\ TokenText(t) = Else) =>
           tokens[i - 1].symbol # anon_sym_LBRACE_LBRACE
      /\ (t.symbol = sym_path /\ TokenText(t) \in {True, False}) => head

\* C34: else, true and false are keywords by position: true and false are
\* boolean tokens only in argument position (after a helper or block name, an
\* argument or =), else is the else token only in the head position right
\* after {{, everywhere else the same letters are a path token, and a keyword
\* continued by a path character is one path token.
C34_KeywordsByPosition ==
  \A i \in 2..Len(tokens) : KeywordInPosition(i) /\ KeywordLetters(i)

\* C34, amended: the same, for the tokens the parser takes. Where the parser
\* expects only }} (after else, after the name of a partial) the lexer still
\* delivers else, true and false as keyword tokens, and the parse fails there.
C34_TakenKeywordsByPosition ==
  \A i \in 2..Len(tokens) :
    /\ KeywordLetters(i)
    /\ Taken(i) => KeywordInPosition(i)
    /\ ~KeywordInPosition(i) => pc \in {"parse", "syntax_error"}
C34_KeywordAsName ==
  /\ pc = "accepted"
  /\ input = <<"{", "{", "#", "x", "}", "}", "{", "{", "/", " ", "e", "l", "s", "e", "}", "}">>
  /\ tokens[5].symbol = sym_path

----------------------------------------------------------------------------
\* String literals as the argument of a helper: an opening quote, then up to
\* a few of these pieces, then }}.

MaxStringPieces == 3
StringPieces ==
  { <<"a">>, <<"\\">>, <<"\\", "\"">>, <<"\"">>, <<"'">>, <<"}", "}">>, <<"\n">>, <<"=">> }
StringTexts ==
  { <<"{", "{", "x", " ", quote>> \o content \o <<"}", "}">> :
      quote \in {"\"", "'"}, content \in TextsOf(StringPieces, MaxStringPieces) }
InitStrings == \E text \in StringTexts : Start(text)
SpecStrings == InitStrings /\ [][Next]_vars

\* The quote character of a quote token or of a string content token.
QuoteOf(symbol) ==
  IF symbol \in {anon_sym_DQUOTE, aux_sym_string_literal_token1} THEN "\"" ELSE "'"
StringContents == {aux_sym_string_literal_token1, aux_sym_string_literal_token2}
Quotes == {anon_sym_DQUOTE, anon_sym_SQUOTE}
\* The offset of the first unescaped quote at or after offset s: a backslash
\* escapes the character after it unless that is a line feed or the end of
\* input, where the content stops before the backslash.
RECURSIVE FirstUnescaped(_, _)
FirstUnescaped(s, quote) ==
  IF s >= Len(input) THEN Len(input)
  ELSE IF input[s + 1] = quote THEN s
  ELSE IF input[s + 1] = "\\"
       THEN IF s + 1 < Len(input) /\ input[s + 2] # "\n"
            THEN FirstUnescaped(s + 2, quote)
            ELSE s
       ELSE FirstUnescaped(s + 1, quote)
\* Strings that hold the other quote, }}, an escaped quote, and nothing.
AcceptedStrings ==
  { <<"{", "{", "x", " ", "\"", "'", "}", "}", "\"", "}", "}">>,
    <<"{", "{", "x", " ", "'", "\"", "}", "}", "'", "}", "}">>,
    <<"{", "{", "x", " ", "\"", "\\", "\"", "a", "\"", "}", "}">>,
    <<"{", "{", "x", " ", "\"", "\"", "}", "}">>,
    <<"{", "{", "x", " ", "'", "'", "}", "}">> }

\* C35: in argument position a string opened by a quote ends at the first
\* unescaped quote of the same kind: the content token starts right after the
\* opening quote and runs up to that quote, over escaped quotes, quotes of the
\* other kind and }}; the empty string is accepted; a string_literal that is
\* reduced has exactly three children, quote, content, quote; and a string
\* still open at the end of input is not accepted.
C35_StringEndsAtQuote ==
  /\ \A i \in 2..Len(tokens) :
       tokens[i].symbol \in StringContents =>
         /\ tokens[i - 1].symbol \in Quotes
         /\ QuoteOf(tokens[i - 1].symbol) = QuoteOf(tokens[i].symbol)
         /\ tokens[i].start = tokens[i - 1].end
         /\ tokens[i].end = FirstUnescaped(tokens[i].start, QuoteOf(tokens[i].symbol))
         /\ pc = "accepted" => CharAt(tokens[i].end) = QuoteOf(tokens[i].symbol)
  /\ \A n \in StackNodes :
       n.symbol = sym_string_literal =>
         /\ Len(n.children) = 3
         /\ n.children[1].symbol \in Quotes
         /\ n.children[2].symbol \in StringContents
         /\ n.children[3].symbol = n.children[1].symbol
         /\ QuoteOf(n.children[2].symbol) = QuoteOf(n.children[1].symbol)
  /\ (Done /\ input \in AcceptedStrings) => pc = "accepted"
C35_EscapedQuoteInside ==
  /\ pc = "accepted"
  /\ \E n \in OfKind(ParseTree, sym_string_literal) :
       /\ n.children[1].symbol = anon_sym_DQUOTE
       /\ Text(n.children[2]) = <<"\\", "\"", "}", "}">>

----------------------------------------------------------------------------
\* The children of a node with the symbol, and the node kinds with fields.
ChildrenOfKind(node, symbol) ==
  {node.children[i] : i \in {j \in 1..Len(node.children) : node.children[j].symbol = symbol}}
FieldKinds == {sym_yaml_line, sym_hash_param, sym_block_expression, sym_close_block}
Fields == {field_key, field_name, field_value}

\* C36: the fields point at the intended children: in a yaml_line key is its
\* yaml_key token and value its yaml_value token, when it has one; in a
\* hash_param key is the path before = and value the argument after it; in a
\* block_expression, with or without arguments, and in a close_block name is
\* the path right after the opener; no other kind of node has a field.
C36_FieldsPointAtChildren ==
  \A n \in StackNodes :
    /\ n.symbol = sym_yaml_line =>
         /\ ChildrenByField(n, field_key) = {n.children[1]}
         /\ n.children[1].symbol = aux_sym_yaml_line_token1
         /\ ChildrenByField(n, field_value) = ChildrenOfKind(n, aux_sym_yaml_line_token2)
         /\ ChildrenByField(n, field_name) = {}
    /\ n.symbol = sym_hash_param =>
         /\ ChildrenByField(n, field_key) = {n.children[1]}
         /\ n.children[1].symbol = sym_path
         /\ n.children[2].symbol = anon_sym_EQ
         /\ ChildrenByField(n, field_value) = {n.children[3]}
         /\ n.children[3].symbol \in HashValues
         /\ ChildrenByField(n, field_name) = {}
    /\ n.symbol = sym_block_expression =>
         /\ n.children[1].symbol = anon_sym_LBRACE_LBRACE_POUND
         /\ ChildrenByField(n, field_name) = {n.children[2]}
         /\ n.children[2].symbol = sym_path
         /\ ChildrenByField(n, field_key) \cup ChildrenByField(n, field_value) = {}
    /\ n.symbol = sym_close_block =>
         /\ n.children[1].symbol = anon_sym_LBRACE_LBRACE_SLASH
         /\ ChildrenByField(n, field_name) = {n.children[2]}
         /\ n.children[2].symbol = sym_path
         /\ ChildrenByField(n, field_key) \cup ChildrenByField(n, field_value) = {}
    /\ n.symbol \notin FieldKinds => ts_field_map(n.production_id) = {}
C36_EveryFieldUsed ==
  /\ pc = "accepted"
  /\ input = EachBlock
  /\ Cardinality(OfKind(ParseTree, sym_hash_param)) = 2
  /\ \E n \in OfKind(ParseTree, sym_block_expression) : Len(n.children) = 4

----------------------------------------------------------------------------
\* The parse states that lex template content outside every block.
TopLevelStates == {s \in 0..(STATE_COUNT - 1) : ts_lex_modes(s) \in {37, 38, 39}}
\* The tokens with the symbol delivered before the i-th.
Before(i, symbol) == {j \in 1..(i - 1) : tokens[j].symbol = symbol}
\* Texts whose last close tag has no open block.
LoneCloseTexts ==
  { <<"{", "{", "/", "x", "}", "}">>, <<"a", "{", "{", "/", "x", "}", "}">>,
    <<"{", "{", "#", "x", "}", "}", "{", "{", "/", "x", "}", "}", "{", "{", "/", "x", "}", "}">> }

\* C37: a close tag with no open block is never accepted: no parse state that
\* lexes top-level content has an action on {{/, and no {{/ token is delivered
\* to such a state; a {{/ token is taken by the parser only after more
\* {{# tokens than {{/ tokens, in a state that lexes block content, above a
\* block_expression on the stack; and {{/x}} at nesting depth zero ends in an
\* error.
C37_NoCloseWithoutOpen ==
  /\ \A s \in TopLevelStates : ts_language_lookup(s, anon_sym_LBRACE_LBRACE_SLASH) = 0
  /\ (token.symbol = anon_sym_LBRACE_LBRACE_SLASH /\ pc \in {"parse", "syntax_error"}) =>
       TopState \notin TopLevelStates
  /\ \A i \in 1..Len(tokens) :
       (tokens[i].symbol = anon_sym_LBRACE_LBRACE_SLASH /\ Taken(i)) =>
         Cardinality(Before(i, anon_sym_LBRACE_LBRACE_POUND)) >
           Cardinality(Before(i, anon_sym_LBRACE_LBRACE_SLASH))
  /\ \A i \in 2..Len(stack) :
       stack[i].node.symbol = anon_sym_LBRACE_LBRACE_SLASH =>
         /\ stack[i - 1].state \in BlockStates
         /\ \E j \in 2..(i - 1) : stack[j].node.symbol = sym_block_expression
  /\ (Done /\ input \in LoneCloseTexts) => Failed
C37_CloseAfterBlock ==
  /\ input = <<"{", "{", "#", "x", "}", "}", "{", "{", "/", "x", "}", "}">>
               \o <<"{", "{", "/", "x", "}", "}">>
  /\ Failed
  /\ Cardinality(Blocks) = 1
  /\ token.symbol = anon_sym_LBRACE_LBRACE /\ token.start = 12

----------------------------------------------------------------------------
\* Texts with {{else}}: the expression whole and in two halves, with a blank
\* inside, open and close tags of a block, and text.

MaxElsePieces == 4
ElsePieces ==
  { <<"{", "{", "e", "l", "s", "e", "}", "}">>, <<"{", "{", " ", "e", "l", "s", "e">>,
    <<"}", "}">>, <<"{", "{", "#", "x", "}", "}">>, <<"{", "{", "/", "x", "}", "}">>,
    <<"a">> }
ElseTexts == TextsOf(ElsePieces, MaxElsePieces)
InitElse == \E text \in ElseTexts : Start(text)
SpecElse == InitElse /\ [][Next]_vars

\* The expressions {{else}} among the nodes.
IsElseExpression(n) ==
  /\ n.symbol = sym_handlebars_expression
  /\ Len(n.children) = 3
  /\ n.children[2].symbol = sym_expression_content
  /\ Kinds(n.children[2].children) = <<anon_sym_else>>
\* The handlebars_block nodes of the tree that span a node.
BlocksAround(n) ==
  {b \in OfKind(ParseTree, sym_handlebars_block) : b.start <= n.start /\ n.end <= b.end}
\* The nesting depth where the i-th token stands.
DepthAt(i) ==
  Cardinality(Before(i, anon_sym_LBRACE_LBRACE_POUND)) -
    Cardinality(Before(i, anon_sym_LBRACE_LBRACE_SLASH))
\* {{else}} alone, after text, twice, and twice in one block.
ElseAccepted ==
  { <<"{", "{", "e", "l", "s", "e", "}", "}">>,
    <<"a", "{", "{", "e", "l", "s", "e", "}", "}">>,
    <<"{", "{", "e", "l", "s", "e", "}", "}", "{", "{", " ", "e", "l", "s", "e", "}", "}">>,
    <<"{", "{", "#", "x", "}", "}", "{", "{", "e", "l", "s", "e", "}", "}">>
      \o <<"{", "{", "e", "l", "s", "e", "}", "}", "{", "{", "/", "x", "}", "}">> }

\* C38: {{else}} is an ordinary handlebars_expression at every content
\* position: an else token in the head of an expression is shifted, and so is
\* the }} after it, at top level and inside a block; the expression_content of
\* {{else}} is the else token alone; and {{else}} neither closes nor splits a
\* block: in an accepted parse it lies in as many handlebars_block nodes as
\* there are blocks open where it stands, and it is a child of the innermost.
C38_ElseIsOrdinary ==
  /\ \A i \in 2..Len(tokens) :
       /\ (tokens[i].symbol = anon_sym_else /\ tokens[i - 1].symbol = anon_sym_LBRACE_LBRACE
             /\ i = Len(tokens)) => pc # "syntax_error"
       /\ (tokens[i].symbol = anon_sym_RBRACE_RBRACE /\ tokens[i - 1].symbol = anon_sym_else
             /\ i = Len(tokens)) => pc # "syntax_error"
  /\ \A n \in StackNodes :
       (n.symbol = sym_expression_content /\ \E e \in OfKind(n, anon_sym_else) : TRUE) =>
         Kinds(n.children) = <<anon_sym_else>> /\ n.production_id = 0
  /\ pc = "accepted" =>
       \A i \in 2..Len(tokens) :
         tokens[i].symbol = anon_sym_else =>
           \E e \in NodesOf(ParseTree) :
             /\ IsElseExpression(e)
             /\ IsToken(e.children[2], i)
             /\ Cardinality(BlocksAround(e)) = DepthAt(i)
             /\ \A b \in BlocksAround(e) :
                  (\A c \in BlocksAround(e) : c.start <= b.start) =>
                    \E k \in 1..Len(VisibleChildren(b)) : VisibleChildren(b)[k] = e
  /\ (Done /\ input \in ElseAccepted) => pc = "accepted"
C38_TwoElseInOneBlock ==
  /\ pc = "accepted"
  /\ input = <<"{", "{", "#", "x", "}", "}", "{", "{", "e", "l", "s", "e", "}", "}">>
               \o <<"{", "{", "e", "l", "s", "e", "}", "}", "{", "{", "/", "x", "}", "}">>
  /\ Cardinality(OfKind(ParseTree, sym_handlebars_block)) = 1
  /\ Cardinality({e \in NodesOf(ParseTree) : IsElseExpression(e)}) = 2

----------------------------------------------------------------------------
\* Expressions: {{, up to a few of a path, an @-identifier, >, else, a number,
\* a string, = and a hash param, then }}.

MaxExpressionPieces == 3
ExpressionPieces ==
  { <<" ", "x">>, <<" ", "@", "i">>, <<">">>, <<" ", "e", "l", "s", "e">>, <<" ", "1">>,
    <<" ", "\"", "s", "\"">>, <<"=">>, <<" ", "k", "=", "1">> }
ExpressionTexts ==
  { <<"{", "{">> \o content \o <<"}", "}">> :
      content \in TextsOf(ExpressionPieces, MaxExpressionPieces) }
InitExpressions == \E text \in ExpressionTexts : Start(text)
SpecExpressions == InitExpressions /\ [][Next]_vars

\* The shapes of an expression_content: a variable reference, a partial
\* reference, else, and a helper call with one argument or with several.
ContentShapes ==
  { <<sym_variable_reference>>, <<anon_sym_GT, sym_path>>, <<anon_sym_else>>,
    <<sym_path, sym_argument>>, <<sym_path, aux_sym_block_expression_repeat1>> }
\* The tokens that can stand in the head of an expression.
HeadTokens == {sym_path, aux_sym_variable_reference_token1, anon_sym_GT, anon_sym_else}
\* Expressions with nothing, a number, a string or = in the head, a partial
\* with an argument, and an @-identifier with an argument.
MalformedExpressions ==
  { <<"{", "{", "}", "}">>, <<"{", "{", " ", "1", "}", "}">>,
    <<"{", "{", " ", "\"", "s", "\"", "}", "}">>, <<"{", "{", "=", "}", "}">>,
    <<"{", "{", ">", " ", "x", " ", "x", "}", "}">>,
    <<"{", "{", ">", " ", "x", " ", "k", "=", "1", "}", "}">>,
    <<"{", "{", " ", "@", "i", " ", "x", "}", "}">>,
    <<"{", "{", " ", "@", "i", " ", "k", "=", "1", "}", "}">> }
IsTaken(i, symbols) == i <= Len(tokens) /\ Taken(i) /\ tokens[i].symbol \in symbols
Closes(i) == i <= Len(tokens) /\ Taken(i) => tokens[i].symbol = anon_sym_RBRACE_RBRACE

\* C39: the content of an expression is one variable reference (a path or an
\* @-identifier), > and one path, else, or a path with one or more arguments
\* or hash params: an expression_content that is reduced has one of these
\* shapes, the token the parser takes after {{ is a path, an @-identifier, >
\* or else, after an @-identifier or else it takes only }}, after > only a
\* path and then }}; and {{}}, a number, a string or = in the head, a partial
\* with arguments and an @-identifier with arguments end in an error.
C39_ExpressionContent ==
  /\ \A n \in StackNodes :
       n.symbol = sym_expression_content =>
         /\ Kinds(n.children) \in ContentShapes
         /\ n.children[1].symbol = sym_variable_reference =>
              Kinds(n.children[1].children) \in
                {<<sym_path>>, <<aux_sym_variable_reference_token1>>}
  /\ \A i \in 1..Len(tokens) :
       tokens[i].symbol = anon_sym_LBRACE_LBRACE =>
         /\ (i + 1 <= Len(tokens) /\ Taken(i + 1)) => tokens[i + 1].symbol \in HeadTokens
         /\ IsTaken(i + 1, {aux_sym_variable_reference_token1, anon_sym_else}) => Closes(i + 2)
         /\ IsTaken(i + 1, {anon_sym_GT}) =>
              /\ (i + 2 <= Len(tokens) /\ Taken(i + 2)) => tokens[i + 2].symbol = sym_path
              /\ Closes(i + 3)
  /\ (Done /\ input \in MalformedExpressions) => Failed
C39_HelperCall ==
  /\ pc = "accepted"
  /\ \E n \in OfKind(ParseTree, sym_expression_content) :
       /\ Kinds(n.children) = <<sym_path, aux_sym_block_expression_repeat1>>
       /\ \E h \in OfKind(n, sym_hash_param) : TRUE

====
